---- MODULE Spec2Model ----
(***************************************************************************)
(* A model of the Soleron scraper: the SoleronScraper class (its two       *)
(* variants, src/unnamed/part_000 and src/src/scraper.js) and the Server   *)
(* that drives it (src/src/server.js, src/unnamed/part_001).               *)
(*                                                                         *)
(* Every `await` of the code is a point where the call is suspended: a     *)
(* call's pc names the browser operation it is waiting for, and one action *)
(* per operation resolves it (success or rejection) and runs the code up   *)
(* to the next await.                                                      *)
(***************************************************************************)
EXTENDS Integers, Sequences, FiniteSets, TLC

\* ------------------------------------------------------------------ bounds

\* scrape()/close() invocations that may be in flight at once
MaxCalls == 2
\* browser processes that can exist at once (a launch beyond it fails)
MaxBrowsers == 2
\* distinct snapshot timestamps
MaxSnap == 2
\* the per-call count of recovery closes saturates here
RebuildCap == 2
\* intervals that can be scheduled at once
MaxTimers == 2

NULL == 0
Calls == 1..MaxCalls
BrowserIds == 1..MaxBrowsers

\* --------------------------------------------------------- error messages

(* "Session" *)
KwSession ==
  << "S","e","s","s","i","o","n" >>

(* "login" *)
KwLogin ==
  << "l","o","g","i","n" >>

(* "navigate" *)
KwNavigate ==
  << "n","a","v","i","g","a","t","e" >>

(* "Login failed" *)
MsgLoginFailed ==
  << "L","o","g","i","n"," ","f","a","i","l","e","d" >>

(* "Failed to navigate to plant page. Current URL: " *)
NavFailedPrefix ==
  <<
    "F","a","i","l","e","d"," ","t","o"," ","n","a","v","i","g","a","t","e",
    " ","t","o"," ","p","l","a","n","t"," ","p","a","g","e","."," ","C","u",
    "r","r","e","n","t"," ","U","R","L",":"," " >>

(* "https://app.soleronenergy.com/#/plants" *)
UrlPlantList ==
  <<
    "h","t","t","p","s",":","/","/","a","p","p",".","s","o","l","e","r","o",
    "n","e","n","e","r","g","y",".","c","o","m","/","#","/","p","l","a","n",
    "t","s" >>

(* "https://app.soleronenergy.com/#/login" *)
UrlLoginRoute ==
  <<
    "h","t","t","p","s",":","/","/","a","p","p",".","s","o","l","e","r","o",
    "n","e","n","e","r","g","y",".","c","o","m","/","#","/","l","o","g","i",
    "n" >>

(* "Navigation timeout of 30000 ms exceeded": the driver's rejection of a
   goto / reload / wait that ran out of time *)
MsgTimeout ==
  <<
    "N","a","v","i","g","a","t","i","o","n"," ","t","i","m","e","o","u","t",
    " ","o","f"," ","3","0","0","0","0"," ","m","s"," ","e","x","c","e","e",
    "d","e","d" >>

(* "Protocol error: Session closed.": the driver's rejection of an operation
   on a page whose connection is gone *)
MsgSessionClosed ==
  <<
    "P","r","o","t","o","c","o","l"," ","e","r","r","o","r",":"," ","S","e",
    "s","s","i","o","n"," ","c","l","o","s","e","d","." >>

(* "Cannot read properties of null": this.page.goto(...) with page = null *)
MsgNullPage ==
  <<
    "C","a","n","n","o","t"," ","r","e","a","d"," ","p","r","o","p","e","r",
    "t","i","e","s"," ","o","f"," ","n","u","l","l" >>

(* "https://app.soleronenergy.com/#/plants/290" *)
UrlPlant ==
  <<
    "h", "t", "t", "p", "s", ":", "/", "/", "a", "p", "p", ".", "s", "o",
    "l", "e", "r", "o", "n", "e", "n", "e", "r", "g", "y", ".", "c", "o",
    "m", "/", "#", "/", "p", "l", "a", "n", "t", "s", "/", "2", "9", "0" >>

(* "plants/290" *)
KwPlantRoute ==
  <<
    "p", "l", "a", "n", "t", "s", "/", "2", "9", "0" >>

(* "a[href*="plants/290"], div:contains("Lao 8a")" *)
FallbackSelector ==
  <<
    "a", "[", "h", "r", "e", "f", "*", "=", "\"", "p", "l", "a", "n", "t",
    "s", "/", "2", "9", "0", "\"", "]", ",", " ", "d", "i", "v", ":", "c",
    "o", "n", "t", "a", "i", "n", "s", "(", "\"", "L", "a", "o", " ", "8",
    "a", "\"", ")" >>

(* ":contains(" *)
KwContains ==
  <<
    ":", "c", "o", "n", "t", "a", "i", "n", "s", "(" >>

(* "Login failed: Invalid credentials or error message displayed." *)
MsgInvalidCredentials ==
  <<
    "L", "o", "g", "i", "n", " ", "f", "a", "i", "l", "e", "d", ":", " ",
    "I", "n", "v", "a", "l", "i", "d", " ", "c", "r", "e", "d", "e", "n",
    "t", "i", "a", "l", "s", " ", "o", "r", " ", "e", "r", "r", "o", "r",
    " ", "m", "e", "s", "s", "a", "g", "e", " ", "d", "i", "s", "p", "l",
    "a", "y", "e", "d", "." >>

(* "Login failed: Stayed on login page (password input visible)." *)
MsgStayedOnLogin ==
  <<
    "L", "o", "g", "i", "n", " ", "f", "a", "i", "l", "e", "d", ":", " ",
    "S", "t", "a", "y", "e", "d", " ", "o", "n", " ", "l", "o", "g", "i",
    "n", " ", "p", "a", "g", "e", " ", "(", "p", "a", "s", "s", "w", "o",
    "r", "d", " ", "i", "n", "p", "u", "t", " ", "v", "i", "s", "i", "b",
    "l", "e", ")", "." >>

(* "Login failed - still on login page. Check credentials." *)
MsgStillOnLogin ==
  <<
    "L", "o", "g", "i", "n", " ", "f", "a", "i", "l", "e", "d", " ", "-",
    " ", "s", "t", "i", "l", "l", " ", "o", "n", " ", "l", "o", "g", "i",
    "n", " ", "p", "a", "g", "e", ".", " ", "C", "h", "e", "c", "k", " ",
    "c", "r", "e", "d", "e", "n", "t", "i", "a", "l", "s", "." >>

(* "signin" *)
KwSignin ==
  <<
    "s", "i", "g", "n", "i", "n" >>

(* "https://app.soleronenergy.com/#/" *)
UrlRoot ==
  <<
    "h", "t", "t", "p", "s", ":", "/", "/", "a", "p", "p", ".", "s", "o",
    "l", "e", "r", "o", "n", "e", "n", "e", "r", "g", "y", ".", "c", "o",
    "m", "/", "#", "/" >>

\* String.prototype.includes: a case-sensitive substring test
Includes(s, t) ==
  \E i \in 0..(Len(s) - Len(t)) : SubSeq(s, i + 1, i + Len(t)) = t

\* the URL the page is on when the final navigation check fails
Urls == {UrlPlantList, UrlLoginRoute}

\* navigateToPlant's terminal error
MsgNavFailed(url) == NavFailedPrefix \o url

\* what a browser-driver operation can reject with
DriverErrors == {MsgTimeout, MsgSessionClosed}

\* ------------------------------------------------------------------ state

VARIABLES
  variant,      \* which scraper source runs: "part_000" or "scraper_js"
  browser,      \* this.browser: NULL or a browser id
  page,         \* this.page: NULL or the id of the browser the page is of
  isLoggedIn,   \* this.isLoggedIn
  latestData,   \* this.latestData: NULL or a snapshot (its timestamp)
  live,         \* browsers launched and not closed
  authed,       \* browsers whose page holds an authenticated remote
                \* session: the site serves them the plant dashboard
  calls,        \* the invocations of scrape() / close(), by slot
  phase,        \* the process: "boot", "startup", "listening"; after a
                \* signal "stoppingEarly" (not yet listening), "stopping",
                \* "stopped"
  scrapeTimer,  \* Server.scrapeTimer is set
  timers,       \* the intervals scheduled by setInterval and not cleared
  idleTooLong,  \* Date.now() - lastActivity > inactivityTimeout
  response,     \* history: the last response of /api/energy or
                \* /api/refresh
  request,      \* history, key-protected server: the last /api request,
                \* its credentials and what the key middleware did
  audit,        \* history is recorded (the scraper called in turn)
  faulty,       \* the environment can misbehave: browser operations
                \* can reject or time out, the remote session can expire
  loginFailed,  \* history: browsers on which a login() has failed
  epc,          \* page.evaluate() of scrapeEnergyFlow in detail: at
                \* "off", "idle", "card" (about to look for card i) or
                \* "return"
  doc,          \* the page: for each card, what the document holds
  result,       \* the object the evaluated function is building
  heap,         \* the objects page.evaluate() has returned, by reference
  seen,         \* what a reader got from getLatestData(): a reference
  nav,          \* navigateToPlant() in detail: its position, the page's
                \* URL, what the page offers, and the outcome
  lgn,          \* login() in detail: its position, what the page offers,
                \* and the outcome
  txt           \* the evaluated function on page text: the elements of
                \* the document, its position, and what it extracted

scraperVars == <<browser, page, isLoggedIn, latestData>>
serverVars ==
  <<phase, scrapeTimer, timers, idleTooLong, response, request>>
extVars == <<epc, doc, result, heap, seen, nav, lgn, txt>>
vars ==
  <<variant, browser, page, isLoggedIn, latestData, live, authed, calls,
    phase, scrapeTimer, timers, idleTooLong, response, request, audit,
    faulty, loginFailed, epc, doc, result, heap, seen, nav, lgn, txt>>

Variants == {"part_000", "scraper_js"}

\* A slot with no invocation in it. pc, op, origin and b (the browser a
\* pending newPage / close acts on) are the invocation's state; the other
\* fields, and b elsewhere (the browser login() ran on), are its history:
\* rebuilds (recovery closes done),
\* cache0 (latestData when it was invoked), fresh (the cycle began without
\* a browser), log (the phases of the cycle completed), result (what it
\* returned), msg (the error its catch block caught), flag0 (the cycle
\* began with browser and isLoggedIn set), stale (the call began with
\* isLoggedIn set and the remote session expired), relogged (a login()
\* of the call succeeded), blind (its extraction ran on a page without an
\* authenticated session), calm (the call began with the environment
\* behaving), wait (how the data-ready wait of the cycle ended: "ready",
\* or "timeout", then "shot" / "noshot" as the screenshot was taken or
\* failed), after (the call of the same caller before this one, and how it
\* ended: "none", "scrape", "close", "scrapeThrew", "closeThrew")
IdleCall ==
  [pc |-> "idle", op |-> "none", origin |-> "none", b |-> NULL,
   rebuilds |-> 0, cache0 |-> NULL, fresh |-> FALSE,
   log |-> <<>>, result |-> NULL, msg |-> <<>>,
   flag0 |-> FALSE, stale |-> FALSE, relogged |-> FALSE,
   blind |-> FALSE, calm |-> FALSE, wait |-> "none", after |-> "none"]

\* no response sent yet. A response has the route, the status, the
\* success and data members of the body, and as history cache
\* (getLatestData() when it was sent), seq (alternating) and restart
\* (the step that sent it began with no timer held, the inactivity
\* timeout exceeded and an earlier response sent)
NoResponse ==
  [route |-> "none", status |-> 0, success |-> FALSE, data |-> NULL,
   cache |-> NULL, seq |-> 0, restart |-> FALSE]

\* no request taken yet. A request to an /api route has the route, the
\* authorization header and the 'key' query parameter as received, and as
\* history answer (401 when the key middleware answered it, 0 when it
\* passed the request on) and seq (alternating)
Missing == [kind |-> "missing", v |-> ""]
NoRequest ==
  [route |-> "none", auth |-> Missing, key |-> Missing, answer |-> 0,
   seq |-> 0]

\* the record as stored: without its history when none is recorded
Audited(rec) ==
  IF audit THEN rec
  ELSE [IdleCall EXCEPT !.pc = rec.pc, !.op = rec.op,
                        !.origin = rec.origin,
                        !.b = IF rec.pc \in {"newPage", "closing"}
                              THEN rec.b ELSE NULL]

\* slot c holds rec from now on
Put(c, rec) == calls' = [calls EXCEPT ![c] = Audited(rec)]

\* the extraction is not looked into: EvaluateDone is one step
NoExtraction ==
  /\ epc = [at |-> "off", i |-> 0]
  /\ doc = <<>>
  /\ result = <<>>
  /\ heap = <<>>
  /\ seen = NULL
  /\ nav = [pc |-> "off"]
  /\ lgn = [pc |-> "off"]
  /\ txt = [pc |-> "off"]

\* constructor (scraper) and constructor (server), the scraper called in
\* turn by one caller
Init ==
  /\ variant \in Variants
  /\ browser = NULL
  /\ page = NULL
  /\ isLoggedIn = FALSE
  /\ latestData = NULL
  /\ live = {}
  /\ authed = {}
  /\ calls = [c \in Calls |-> IdleCall]
  /\ phase = "boot"
  /\ scrapeTimer = FALSE
  /\ timers = 0
  /\ idleTooLong = FALSE
  /\ response = NoResponse
  /\ request = NoRequest
  /\ audit = TRUE
  /\ faulty = TRUE
  /\ loginFailed = {}
  /\ NoExtraction

InFlight(c) == calls[c].pc \notin {"idle", "done", "threw"}
NoneInFlight == \A c \in Calls : calls[c].pc = "idle"
\* the slot a new invocation takes
FreeSlot(c) ==
  /\ calls[c].pc = "idle"
  /\ \A d \in Calls : d < c => calls[d].pc # "idle"

\* ------------------------------------------------- SoleronScraper.scrape

Min(a, b) == IF a < b THEN a ELSE b

\* the test of scrape()'s catch block: is the error a session fault
Classified(msg) ==
  IF variant = "part_000"
  THEN Includes(msg, KwSession) \/ Includes(msg, KwLogin)
         \/ Includes(msg, KwNavigate)
  ELSE Includes(msg, KwSession) \/ Includes(msg, KwLogin)

\* timestamp: new Date().toISOString(): a snapshot unlike the cached one
NewSnapshot == (latestData % MaxSnap) + 1

\* a browser operation on this.page can succeed: the page exists and its
\* browser runs
PageUsable == page # NULL /\ page \in live

\* a slip: scrape() goes from initialize() straight to the navigation
AfterInitializeSkipsLogin(rec) == [rec EXCEPT !.pc = "navigate"]

\* scrape() after initialize(): login unless logged in, then navigation
AfterInitialize(rec) ==
  IF ~isLoggedIn
  THEN [rec EXCEPT !.pc = "login", !.b = browser]
  ELSE [rec EXCEPT !.pc = "navigate"]

\* the start of scrape()'s try block, up to its first await; br and li are
\* this.browser and this.isLoggedIn at that moment
EnterCycle(rec, br, li) ==
  LET r == [rec EXCEPT !.log = <<>>, !.msg = <<>>, !.fresh = (br = NULL),
                       !.flag0 = (br # NULL /\ li), !.wait = "none"]
  IN IF br = NULL
     THEN [r EXCEPT !.pc = "launch"]
     ELSE IF ~li
          THEN [r EXCEPT !.pc = "login", !.b = br]
          ELSE [r EXCEPT !.pc = "navigate"]

\* scrape() is invoked: the call takes slot c
StartScrape(c, origin) ==
  /\ Put(c, EnterCycle([IdleCall EXCEPT
                          !.op = "scrape",
                          !.origin = origin,
                          !.cache0 = latestData,
                          !.stale = (isLoggedIn /\ page \notin authed),
                          !.calm = ~faulty,
                          !.after = calls[c].after],
                       browser, isLoggedIn))
  /\ UNCHANGED <<variant, scraperVars, live, authed, audit, faulty,
                 extVars, loginFailed>>

\* what follows close() in the catch block: the retry, in part_000 after
\* the five-second wait
AfterRecoveryClose(rec) ==
  IF variant = "part_000"
  THEN [rec EXCEPT !.pc = "backoff"]
  ELSE EnterCycle(rec, NULL, FALSE)

\* a slip: this.isLoggedIn = false is done for every error, before the test
CatchClearsFlag(c, rec, msg) ==
  LET r == [rec EXCEPT !.msg = msg]
  IN /\ isLoggedIn' = FALSE
     /\ IF Classified(msg)
        THEN Put(c, IF browser # NULL
                    THEN [r EXCEPT !.pc = "closing", !.b = browser]
                    ELSE AfterRecoveryClose(r))
        ELSE Put(c, [r EXCEPT !.pc = "done", !.result = latestData])
     /\ UNCHANGED <<browser, page, latestData, live, authed>>

\* scrape()'s catch block, entered with the error message msg by call c
\* whose record is rec
Catch(c, rec, msg) ==
  LET r == [rec EXCEPT !.msg = msg]
  IN IF Classified(msg)
     THEN /\ isLoggedIn' = FALSE
          /\ Put(c, IF browser # NULL
                    THEN [r EXCEPT !.pc = "closing", !.b = browser]
                    ELSE AfterRecoveryClose(r))
          /\ UNCHANGED <<browser, page, latestData, live, authed>>
     ELSE /\ Put(c, [r EXCEPT !.pc = "done", !.result = latestData])
          /\ UNCHANGED <<browser, page, isLoggedIn, latestData, live, authed>>

\* initialize(): puppeteer.launch() settles
LaunchDone(c) ==
  /\ calls[c].pc = "launch"
  /\ \/ \E b \in BrowserIds \ live :
          /\ \A d \in BrowserIds \ live : b <= d
          /\ browser' = b
          /\ live' = live \cup {b}
          /\ loginFailed' = loginFailed \ {b}
          /\ Put(c, [calls[c] EXCEPT !.pc = "newPage", !.b = b])
          /\ UNCHANGED <<page, isLoggedIn, latestData, authed>>
     \/ \E m \in DriverErrors :
          /\ faulty \/ BrowserIds \subseteq live
          /\ Catch(c, calls[c], m)
          /\ UNCHANGED loginFailed
  /\ UNCHANGED <<variant, serverVars, audit, faulty, extVars>>

\* initialize(): browser.newPage() settles
NewPageDone(c) ==
  /\ calls[c].pc = "newPage"
  /\ \/ /\ calls[c].b \in live
        /\ page' = calls[c].b
        /\ Put(c, [calls[c] EXCEPT !.pc = "viewport"])
        /\ UNCHANGED <<browser, isLoggedIn, latestData, live, authed>>
     \/ \E m \in DriverErrors :
          /\ faulty \/ (calls[c].b \notin live /\ m = MsgSessionClosed)
          /\ Catch(c, calls[c], m)
  /\ UNCHANGED <<variant, serverVars, audit, faulty, extVars, loginFailed>>

\* initialize(): page.setViewport() settles; on success scrape() goes on
ViewportDone(c) ==
  /\ calls[c].pc = "viewport"
  /\ \/ /\ PageUsable
        /\ Put(c, AfterInitialize(
                    [calls[c] EXCEPT !.log = Append(@, "init")]))
        /\ UNCHANGED <<browser, page, isLoggedIn, latestData, live,
                       authed>>
     \/ \E m \in DriverErrors :
          /\ faulty \/ (~PageUsable /\ m = MsgSessionClosed)
          /\ Catch(c, calls[c], m)
  /\ UNCHANGED <<variant, serverVars, audit, faulty, extVars, loginFailed>>

\* login() settles: isLoggedIn is set on its success path only, and every
\* failure is rethrown as 'Login failed'
LoginDone(c) ==
  /\ calls[c].pc = "login"
  /\ \/ /\ PageUsable
        /\ isLoggedIn' = TRUE
        /\ authed' = authed \cup {page}
        /\ Put(c, [calls[c] EXCEPT !.pc = "navigate",
                                   !.log = Append(@, "login"),
                                   !.relogged = TRUE])
        /\ UNCHANGED <<browser, page, latestData, live, loginFailed>>
     \/ /\ faulty \/ ~PageUsable
        /\ Catch(c, calls[c], MsgLoginFailed)
        /\ loginFailed' =
             IF audit THEN loginFailed \cup ({calls[c].b} \ {NULL})
             ELSE loginFailed
  /\ UNCHANGED <<variant, serverVars, audit, faulty, extVars>>

\* navigateToPlant's terminal error, for the URLs the page can be on
NavFailures == {MsgNavFailed(u) : u \in Urls}

\* what navigateToPlant() can throw: a rejected driver call, or its own
\* terminal error with the URL the page is on
NavigateErrors ==
  DriverErrors \cup {MsgNullPage} \cup NavFailures

\* navigateToPlant() settles. The plant dashboard, with its Solar / Grid
\* markers, is shown to an authenticated session only: without one the
\* final check fails
NavigateDone(c) ==
  /\ calls[c].pc = "navigate"
  /\ \/ /\ PageUsable
        /\ page \in authed
        /\ Put(c, [calls[c] EXCEPT !.pc = "waitData",
                                   !.log = Append(@, "nav")])
        /\ UNCHANGED <<browser, page, isLoggedIn, latestData, live,
                       authed>>
     \/ \E m \in NavigateErrors :
          /\ (m = MsgNullPage) <=> (page = NULL)
          /\ \/ faulty
             \/ page = NULL
             \/ page \notin live /\ m = MsgSessionClosed
             \/ PageUsable /\ page \notin authed /\ m \in NavFailures
          /\ Catch(c, calls[c], m)
  /\ UNCHANGED <<variant, serverVars, audit, faulty, extVars, loginFailed>>

\* a slip: the inner try / catch is missing, the timeout of the wait
\* reaches scrape()'s catch block
WaitDataDoneAborts(c) ==
  /\ calls[c].pc = "waitData"
  /\ \/ /\ PageUsable
        /\ page \in authed
        /\ Put(c, [calls[c] EXCEPT !.pc = "evaluate", !.wait = "ready"])
        /\ UNCHANGED <<scraperVars, live, authed>>
     \/ /\ faulty \/ ~PageUsable \/ page \notin authed
        /\ Catch(c, [calls[c] EXCEPT !.wait = "timeout"], MsgTimeout)
  /\ UNCHANGED <<variant, serverVars, audit, faulty, extVars, loginFailed>>

\* scrapeEnergyFlow(): the data-ready wait settles; a timeout leads to the
\* diagnostic screenshot, not out of the cycle
WaitDataDone(c) ==
  /\ calls[c].pc = "waitData"
  /\ \/ /\ PageUsable
        /\ page \in authed
        /\ Put(c, [calls[c] EXCEPT !.pc = "evaluate", !.wait = "ready"])
     \/ /\ faulty \/ ~PageUsable \/ page \notin authed
        /\ Put(c, [calls[c] EXCEPT !.pc = "screenshot",
                                   !.wait = "timeout"])
  /\ UNCHANGED <<variant, scraperVars, live, authed, serverVars, audit,
                 faulty, extVars, loginFailed>>

\* scrapeEnergyFlow(): the screenshot settles: taken, or failed and the
\* failure logged; the extraction follows either way
ScreenshotDone(c) ==
  /\ calls[c].pc = "screenshot"
  /\ \/ /\ PageUsable
        /\ Put(c, [calls[c] EXCEPT !.pc = "evaluate", !.wait = "shot"])
     \/ /\ faulty \/ ~PageUsable
        /\ Put(c, [calls[c] EXCEPT !.pc = "evaluate", !.wait = "noshot"])
  /\ UNCHANGED <<variant, scraperVars, live, authed, serverVars, audit,
                 faulty, extVars, loginFailed>>

\* a slip: the snapshot is returned and not stored in latestData
EvaluateDoneNoStore(c) ==
  /\ calls[c].pc = "evaluate"
  /\ \/ /\ PageUsable
        /\ Put(c, [calls[c] EXCEPT !.pc = "done",
                                   !.log = Append(@, "extract"),
                                   !.result = NewSnapshot,
                                   !.blind = (page \notin authed)])
     \/ /\ faulty \/ ~PageUsable
        /\ Put(c, [calls[c] EXCEPT !.pc = "done", !.result = latestData])
  /\ UNCHANGED <<variant, scraperVars, live, authed, serverVars, audit,
                 faulty, extVars, loginFailed>>

\* scrapeEnergyFlow(): page.evaluate() settles; the snapshot is stored and
\* returned, or the cached one is returned when the evaluation threw
EvaluateDone(c) ==
  /\ calls[c].pc = "evaluate"
  /\ \/ /\ PageUsable
        /\ latestData' = NewSnapshot
        /\ Put(c, [calls[c] EXCEPT !.pc = "done",
                                   !.log = Append(@, "extract"),
                                   !.result = NewSnapshot,
                                   !.blind = (page \notin authed)])
     \/ /\ faulty \/ ~PageUsable
        /\ Put(c, [calls[c] EXCEPT !.pc = "done", !.result = latestData])
        /\ UNCHANGED latestData
  /\ UNCHANGED <<variant, browser, page, isLoggedIn, live, authed, serverVars,
                 audit, faulty, extVars, loginFailed>>

\* a slip: close() without its test of this.browser
StartCloseUnguarded(c, origin) ==
  /\ Put(c, IF browser # NULL
            THEN [IdleCall EXCEPT !.op = "close", !.origin = origin,
                                  !.pc = "closing", !.b = browser,
                                  !.cache0 = latestData,
                                  !.after = calls[c].after]
            ELSE [IdleCall EXCEPT !.op = "close", !.origin = origin,
                                  !.pc = "threw",
                                  !.cache0 = latestData,
                                  !.after = calls[c].after])
  /\ UNCHANGED <<variant, scraperVars, live, authed, audit, faulty,
                 extVars, loginFailed>>

\* close() is invoked from outside scrape(): a no-op without a browser
StartClose(c, origin) ==
  /\ Put(c, IF browser # NULL
            THEN [IdleCall EXCEPT !.op = "close", !.origin = origin,
                                  !.pc = "closing", !.b = browser,
                                  !.cache0 = latestData,
                                  !.after = calls[c].after]
            ELSE [IdleCall EXCEPT !.op = "close", !.origin = origin,
                                  !.pc = "done",
                                  !.cache0 = latestData,
                                  !.after = calls[c].after])
  /\ UNCHANGED <<variant, scraperVars, live, authed, audit, faulty,
                 extVars, loginFailed>>

\* a slip: close() resets the cached snapshot along with the session
CloseDoneClearsCache(c) ==
  /\ calls[c].pc = "closing"
  /\ \/ /\ live' = live \ {calls[c].b}
        /\ authed' = authed \ {calls[c].b}
        /\ browser' = NULL
        /\ page' = NULL
        /\ isLoggedIn' = FALSE
        /\ latestData' = NULL
        /\ Put(c, IF calls[c].op = "scrape"
                  THEN AfterRecoveryClose(
                         [calls[c] EXCEPT
                            !.rebuilds = Min(@ + 1, RebuildCap)])
                  ELSE [calls[c] EXCEPT !.pc = "done"])
     \/ \E gone \in BOOLEAN :
          /\ faulty
          /\ live' = IF gone THEN live \ {calls[c].b} ELSE live
          /\ authed' = IF gone THEN authed \ {calls[c].b} ELSE authed
          /\ Put(c, [calls[c] EXCEPT !.pc = "threw"])
          /\ UNCHANGED scraperVars
  /\ UNCHANGED <<variant, serverVars, audit, faulty, extVars, loginFailed>>

\* close(): browser.close() settles. On success the three fields are reset
\* and, inside scrape()'s catch block, the cycle is retried; a rejection
\* leaves close() and scrape() with the fields as they are, the browser
\* process gone or not
CloseDone(c) ==
  /\ calls[c].pc = "closing"
  /\ \/ /\ live' = live \ {calls[c].b}
        /\ authed' = authed \ {calls[c].b}
        /\ browser' = NULL
        /\ page' = NULL
        /\ isLoggedIn' = FALSE
        /\ Put(c, IF calls[c].op = "scrape"
                  THEN AfterRecoveryClose(
                         [calls[c] EXCEPT
                            !.rebuilds = Min(@ + 1, RebuildCap)])
                  ELSE [calls[c] EXCEPT !.pc = "done"])
        /\ UNCHANGED latestData
     \/ \E gone \in BOOLEAN :
          /\ faulty
          /\ live' = IF gone THEN live \ {calls[c].b} ELSE live
          /\ authed' = IF gone THEN authed \ {calls[c].b} ELSE authed
          /\ Put(c, [calls[c] EXCEPT !.pc = "threw"])
          /\ UNCHANGED scraperVars
  /\ UNCHANGED <<variant, serverVars, audit, faulty, extVars, loginFailed>>

\* scrape()'s catch block, part_000: the five-second wait is over and
\* scrape() calls itself
BackoffDone(c) ==
  /\ calls[c].pc = "backoff"
  /\ Put(c, EnterCycle(calls[c], browser, isLoggedIn))
  /\ UNCHANGED <<variant, scraperVars, live, authed, serverVars, audit,
                 faulty, extVars, loginFailed>>

\* the remote session of a page expires
SessionExpires ==
  /\ faulty
  /\ \E b \in authed : authed' = authed \ {b}
  /\ UNCHANGED <<variant, scraperVars, live, calls, serverVars, audit,
                 faulty, extVars, loginFailed>>

\* one step of the invocation in slot c
Step(c) ==
  \/ LaunchDone(c)
  \/ NewPageDone(c)
  \/ ViewportDone(c)
  \/ LoginDone(c)
  \/ NavigateDone(c)
  \/ WaitDataDone(c)
  \/ ScreenshotDone(c)
  \/ EvaluateDone(c)
  \/ CloseDone(c)
  \/ BackoffDone(c)

\* ------------------------------------------- the scraper, called in turn

\* a caller that awaits each call before the next: scrape()
CallScrape ==
  /\ NoneInFlight
  /\ StartScrape(1, "caller")
  /\ UNCHANGED serverVars

\* a caller that awaits each call before the next: close()
CallClose ==
  /\ NoneInFlight
  /\ StartClose(1, "caller")
  /\ UNCHANGED serverVars

\* the call returned or threw, and the caller has its outcome
Return ==
  /\ calls[1].pc \in {"done", "threw"}
  /\ calls' = [calls EXCEPT ![1] =
                [IdleCall EXCEPT !.after =
                   IF calls[1].pc = "done" THEN calls[1].op
                   ELSE IF calls[1].op = "close" THEN "closeThrew"
                        ELSE "scrapeThrew"]]
  /\ UNCHANGED <<variant, scraperVars, live, authed, serverVars, audit,
                 faulty, extVars, loginFailed>>

Next ==
  \/ CallScrape
  \/ CallClose
  \/ Return
  \/ Step(1)
  \/ SessionExpires

Spec == Init /\ [][Next]_vars

\* every pending browser operation settles: it completes or times out
LiveSpec == Spec /\ WF_vars(Step(1)) /\ WF_vars(Return)

\* from now on the environment behaves: every browser operation that can
\* succeed does, and no session expires
Heal ==
  /\ faulty
  /\ faulty' = FALSE
  /\ UNCHANGED <<variant, scraperVars, live, authed, calls, serverVars,
                 audit, extVars, loginFailed>>

RecoverNext ==
  \/ Next
  \/ Heal

\* the scraper called in turn, in an environment that misbehaves up to
\* some point and behaves from then on
RecoverSpec == Init /\ [][RecoverNext]_vars

\* ----------------------------------------------------------- the Server

\* Server.initializeScraper, called by the entry point before start():
\* the scraper is created and the startup scrape begins
InitializeScraper ==
  /\ phase = "boot"
  /\ phase' = "startup"
  /\ StartScrape(1, "startup")
  /\ UNCHANGED <<scrapeTimer, timers, idleTooLong, response>>
  /\ UNCHANGED request

\* the startup scrape is over (its rejection is caught): server.start()
StartupDone(c) ==
  /\ phase \in {"startup", "stoppingEarly"}
  /\ calls[c].origin = "startup"
  /\ calls[c].pc \in {"done", "threw"}
  /\ calls' = [calls EXCEPT ![c] = IdleCall]
  /\ phase' = IF phase = "startup" THEN "listening" ELSE "stopping"
  /\ UNCHANGED <<variant, scraperVars, live, authed, scrapeTimer, timers,
                 idleTooLong, response, audit, faulty, extVars,
                 loginFailed>>
  /\ UNCHANGED request

\* the close() of Server.stop() has settled: what is left of the signal
\* handler runs to process.exit without the event loop taking another
\* request, timer or browser event
Exiting ==
  \E c \in Calls :
    calls[c].origin = "stop" /\ calls[c].pc \in {"done", "threw"}

\* the process runs and its event loop takes events
Running == phase # "stopped" /\ ~Exiting

\* app.listen() was called, and stop() does not close the listener:
\* requests and timer callbacks are taken
Serving == phase \in {"listening", "stopping"} /\ ~Exiting

\* a slip: ensureScrapingLoop without its test of this.scrapeTimer
EnsureScrapingLoopUnguarded ==
  /\ timers < MaxTimers
  /\ scrapeTimer' = TRUE
  /\ timers' = timers + 1

\* Server.ensureScrapingLoop: with a timer running nothing happens, else
\* setInterval schedules one and scrapeTimer holds it
EnsureScrapingLoop ==
  IF scrapeTimer
  THEN UNCHANGED <<scrapeTimer, timers>>
  ELSE /\ timers < MaxTimers
       /\ scrapeTimer' = TRUE
       /\ timers' = timers + 1

\* Server.stopLoop: the timer scrapeTimer holds is cleared and the field
\* set to null; without one nothing happens
StopLoop ==
  IF scrapeTimer
  THEN /\ scrapeTimer' = FALSE
       /\ timers' = timers - 1
  ELSE UNCHANGED <<scrapeTimer, timers>>

\* res.json / res.status().json: the response is sent
Respond(route, status, success, data) ==
  response' =
    IF audit
    THEN [route |-> route, status |-> status, success |-> success,
          data |-> data, cache |-> latestData, seq |-> 1 - response.seq,
          restart |-> (~scrapeTimer /\ idleTooLong
                         /\ response.route # "none")]
    ELSE response

\* a slip: the handler scrapes when it has started the loop
GetEnergyScrapesNow ==
  /\ Serving
  /\ idleTooLong' = FALSE
  /\ EnsureScrapingLoop
  /\ IF latestData = NULL
     THEN Respond("energy", 503, FALSE, NULL)
     ELSE Respond("energy", 200, TRUE, latestData)
  /\ IF ~scrapeTimer /\ calls[1].pc = "idle"
     THEN StartScrape(1, "tick")
     ELSE UNCHANGED <<variant, scraperVars, live, authed, calls, audit,
                      faulty, extVars, loginFailed>>
  /\ UNCHANGED phase
  /\ UNCHANGED request

\* the handler of GET /api/energy: lastActivity is updated, the loop is
\* ensured, and the answer comes from the cache: 503 without data
EnergyHandler ==
  /\ Serving
  /\ idleTooLong' = FALSE
  /\ EnsureScrapingLoop
  /\ IF latestData = NULL
     THEN Respond("energy", 503, FALSE, NULL)
     ELSE Respond("energy", 200, TRUE, latestData)
  /\ UNCHANGED <<variant, scraperVars, live, authed, calls, phase, audit,
                 faulty, extVars, loginFailed>>

\* GET /api/energy, server.js: the request reaches its handler
GetEnergy ==
  /\ EnergyHandler
  /\ UNCHANGED request

\* the handler of POST /api/refresh: lastActivity is updated, the loop is
\* ensured, and scrape() is invoked and awaited
RefreshHandler(c) ==
  /\ Serving
  /\ FreeSlot(c)
  /\ idleTooLong' = FALSE
  /\ EnsureScrapingLoop
  /\ StartScrape(c, "refresh")
  /\ UNCHANGED <<phase, response>>

\* POST /api/refresh, server.js: the request reaches its handler
PostRefresh(c) ==
  /\ RefreshHandler(c)
  /\ UNCHANGED request

\* a slip: lastUpdate is read as data?.timestamp, so a null snapshot is
\* sent with success: true
RefreshDoneNullData(c) ==
  /\ calls[c].origin = "refresh"
  /\ calls[c].pc \in {"done", "threw"}
  /\ calls' = [calls EXCEPT ![c] = IdleCall]
  /\ IF calls[c].pc = "threw"
     THEN Respond("refresh", 500, FALSE, NULL)
     ELSE Respond("refresh", 200, TRUE, latestData)
  /\ UNCHANGED <<variant, scraperVars, live, authed, phase, scrapeTimer,
                 timers, idleTooLong, audit, faulty, extVars, loginFailed>>
  /\ UNCHANGED request

\* POST /api/refresh: its scrape() settled and the response is sent: the
\* snapshot, or 500 when scrape() rejected or data.timestamp threw on a
\* null snapshot
RefreshDone(c) ==
  /\ calls[c].origin = "refresh"
  /\ calls[c].pc \in {"done", "threw"}
  /\ calls' = [calls EXCEPT ![c] = IdleCall]
  /\ IF calls[c].pc = "threw" \/ latestData = NULL
     THEN Respond("refresh", 500, FALSE, NULL)
     ELSE Respond("refresh", 200, TRUE, latestData)
  /\ UNCHANGED <<variant, scraperVars, live, authed, phase, scrapeTimer,
                 timers, idleTooLong, audit, faulty, extVars, loginFailed>>
  /\ UNCHANGED request

\* a slip: the callback stops the loop and goes on to scrape, its return
\* missing
TickStopsButScrapes(c) ==
  /\ Serving
  /\ timers > 0
  /\ FreeSlot(c)
  /\ IF idleTooLong THEN StopLoop ELSE UNCHANGED <<scrapeTimer, timers>>
  /\ StartScrape(c, "tick")
  /\ UNCHANGED <<phase, idleTooLong, response>>
  /\ UNCHANGED request

\* the setInterval callback of ensureScrapingLoop, run for a scheduled
\* interval: stop the loop after the inactivity timeout, else invoke
\* scrape(); the timer does not wait for the previous callback
Tick(c) ==
  /\ Serving
  /\ timers > 0
  /\ IF idleTooLong
     THEN /\ c = 1
          /\ StopLoop
          /\ UNCHANGED <<variant, scraperVars, live, authed, calls, audit,
                         faulty, extVars, loginFailed>>
     ELSE /\ FreeSlot(c)
          /\ StartScrape(c, "tick")
          /\ UNCHANGED <<scrapeTimer, timers>>
  /\ UNCHANGED <<phase, idleTooLong, response>>
  /\ UNCHANGED request

\* the timer callback's scrape() settled
TickDone(c) ==
  /\ calls[c].origin = "tick"
  /\ calls[c].pc \in {"done", "threw"}
  /\ calls' = [calls EXCEPT ![c] = IdleCall]
  /\ UNCHANGED <<variant, scraperVars, live, authed, serverVars, audit,
                 faulty, extVars, loginFailed>>

\* time passes without a request until the inactivity timeout is exceeded
TimePasses ==
  /\ Serving
  /\ ~idleTooLong
  /\ idleTooLong' = TRUE
  /\ UNCHANGED <<variant, scraperVars, live, authed, calls, phase,
                 scrapeTimer, timers, response, audit, faulty, extVars,
                 loginFailed>>
  /\ UNCHANGED request

\* SIGINT / SIGTERM before the scraper exists: Server.stop() has nothing
\* to close
SignalAtBoot ==
  /\ phase = "boot"
  /\ phase' = "stopped"
  /\ UNCHANGED <<variant, scraperVars, live, authed, calls, scrapeTimer,
                 timers, idleTooLong, response, audit, faulty, extVars,
                 loginFailed>>
  /\ UNCHANGED request

\* SIGINT / SIGTERM: Server.stop() stops the loop and closes the scraper
Signal(c) ==
  /\ phase \in {"startup", "listening"}
  /\ FreeSlot(c)
  /\ phase' = IF phase = "startup" THEN "stoppingEarly" ELSE "stopping"
  /\ StopLoop
  /\ StartClose(c, "stop")
  /\ UNCHANGED <<idleTooLong, response>>
  /\ UNCHANGED request

\* Server.stop() settled: process.exit
StopDone(c) ==
  /\ phase \in {"stoppingEarly", "stopping"}
  /\ calls[c].origin = "stop"
  /\ calls[c].pc \in {"done", "threw"}
  /\ phase' = "stopped"
  /\ UNCHANGED <<variant, scraperVars, live, authed, calls, scrapeTimer,
                 timers, idleTooLong, response, audit, faulty, extVars,
                 loginFailed>>
  /\ UNCHANGED request

ServerNext ==
  \/ InitializeScraper
  \/ SignalAtBoot
  \/ GetEnergy
  \/ TimePasses
  \/ (phase # "stopped" /\ SessionExpires)
  \/ \E c \in Calls :
       \/ StartupDone(c)
       \/ PostRefresh(c)
       \/ RefreshDone(c)
       \/ Tick(c)
       \/ TickDone(c)
       \/ Signal(c)
       \/ StopDone(c)
       \/ (Running /\ Step(c))

\* the same constructors, the scraper driven by the server
ServerInit ==
  /\ variant \in Variants
  /\ browser = NULL
  /\ page = NULL
  /\ isLoggedIn = FALSE
  /\ latestData = NULL
  /\ live = {}
  /\ authed = {}
  /\ calls = [c \in Calls |-> IdleCall]
  /\ phase = "boot"
  /\ scrapeTimer = FALSE
  /\ timers = 0
  /\ idleTooLong = FALSE
  /\ response = NoResponse
  /\ request = NoRequest
  /\ audit = FALSE
  /\ faulty = TRUE
  /\ loginFailed = {}
  /\ NoExtraction

ServerSpec == ServerInit /\ [][ServerNext]_vars

\* the server from its start on, no signal arriving, the timer callbacks
\* one after the other
SchedNext ==
  \/ InitializeScraper
  \/ StartupDone(1)
  \/ GetEnergy
  \/ PostRefresh(1)
  \/ RefreshDone(1)
  \/ Tick(1)
  \/ TickDone(1)
  \/ TimePasses
  \/ SessionExpires
  \/ Step(1)

SchedSpec == ServerInit /\ [][SchedNext]_vars

\* the same, with the history of calls and responses recorded
ApiSpec == Init /\ [][SchedNext]_vars

\* ------------------------ the Server of src/src/scraper.js: the API key

\* a header or query value that is a string
Str(v) == [kind |-> "string", v |-> v]
\* ?key=a&key=b: the query parser yields an array
KeyArray == [kind |-> "array", v |-> "mfrr"]

\* the authorization headers and 'key' query parameters of the requests
\* looked at
AuthHeaders == {Missing, Str(""), Str("mfrr"), Str("MFRR")}
QueryKeys == {Missing, Str("mfrr"), Str("x"), KeyArray}
ApiRoutes == {"energy", "refresh"}

\* undefined and the empty string are falsy
Falsy(x) == x.kind = "missing" \/ (x.kind = "string" /\ x.v = "")

\* req.headers.authorization || req.query.key
ApiKey(auth, key) == IF Falsy(auth) THEN key ELSE auth

ValidKey == Str("mfrr")

\* the test of the middleware, apiKey !== validKey, fails
Authorized(auth, key) == ApiKey(auth, key) = ValidKey

\* the request as recorded
Taken(route, auth, key, answer) ==
  [route |-> route, auth |-> auth, key |-> key, answer |-> answer,
   seq |-> 1 - request.seq]

\* a slip: lastActivity is updated before the key is tested
KeyRejectCountsActivity ==
  /\ Serving
  /\ \E route \in ApiRoutes, auth \in AuthHeaders, key \in QueryKeys :
       /\ ~Authorized(auth, key)
       /\ request' = Taken(route, auth, key, 401)
       /\ Respond(route, 401, FALSE, NULL)
  /\ idleTooLong' = FALSE
  /\ UNCHANGED <<variant, scraperVars, live, authed, calls, phase,
                 scrapeTimer, timers, audit, faulty, extVars,
                 loginFailed>>

\* the middleware on /api/*: a request whose key is not the valid one is
\* answered 401 and goes no further
KeyReject ==
  /\ Serving
  /\ \E route \in ApiRoutes, auth \in AuthHeaders, key \in QueryKeys :
       /\ ~Authorized(auth, key)
       /\ request' = Taken(route, auth, key, 401)
       /\ Respond(route, 401, FALSE, NULL)
  /\ UNCHANGED <<variant, scraperVars, live, authed, calls, phase,
                 scrapeTimer, timers, idleTooLong, audit, faulty, extVars,
                 loginFailed>>

\* GET /api/energy with the valid key: next(), and the handler runs
KeyGetEnergy ==
  /\ \E auth \in AuthHeaders, key \in QueryKeys :
       /\ Authorized(auth, key)
       /\ request' = Taken("energy", auth, key, 0)
  /\ EnergyHandler

\* POST /api/refresh with the valid key: next(), and the handler runs
KeyPostRefresh(c) ==
  /\ \E auth \in AuthHeaders, key \in QueryKeys :
       /\ Authorized(auth, key)
       /\ request' = Taken("refresh", auth, key, 0)
  /\ RefreshHandler(c)

\* the key-protected server from its start on, no signal arriving, the
\* timer callbacks one after the other
KeyNext ==
  \/ InitializeScraper
  \/ StartupDone(1)
  \/ KeyReject
  \/ KeyGetEnergy
  \/ KeyPostRefresh(1)
  \/ RefreshDone(1)
  \/ Tick(1)
  \/ TickDone(1)
  \/ TimePasses
  \/ SessionExpires
  \/ Step(1)

KeySpec == ServerInit /\ [][KeyNext]_vars

\* the interval timer fires again and again, and pending browser
\* operations settle
SchedLiveSpec ==
  SchedSpec /\ WF_vars(Tick(1)) /\ WF_vars(Step(1)) /\ WF_vars(TickDone(1))

\* the server with its signals, one invocation of the scraper at a time:
\* requests and timer callbacks before, while and after stop() runs
LoopNext ==
  \/ InitializeScraper
  \/ SignalAtBoot
  \/ StartupDone(1)
  \/ GetEnergy
  \/ PostRefresh(1)
  \/ RefreshDone(1)
  \/ Tick(1)
  \/ TickDone(1)
  \/ TimePasses
  \/ Signal(1)
  \/ StopDone(1)
  \/ (phase # "stopped" /\ SessionExpires)
  \/ (Running /\ Step(1))

LoopSpec == ServerInit /\ [][LoopNext]_vars

\* --------------------------------- scrapeEnergyFlow: the snapshot object

\* the cards the evaluated function looks for, in its order, and mFRR
Cards == <<"solar", "grid", "battery", "car", "consumption", "mfrr">>

\* what the document holds for a card: no element matches ("absent"), an
\* element matches but none of its values does ("bare"), an element with
\* values ("full")
CardStates == {"absent", "bare", "full"}

\* a value read from a card
Val == 1

\* obj.k = v
SetKey(obj, k, v) ==
  [x \in DOMAIN obj \cup {k} |-> IF x = k THEN v ELSE obj[x]]

\* a slip: the literal has no mfrr key, it appears when a value is found
EmptyResultNoMfrr(t) ==
  [timestamp |-> t,
   solar |-> [load |-> NULL, status |-> NULL],
   grid |-> [load |-> NULL, status |-> NULL],
   battery |-> [load |-> NULL, soc |-> NULL, status |-> NULL],
   car |-> [load |-> NULL, status |-> NULL],
   consumption |-> [load |-> NULL, status |-> NULL]]

\* the object literal the evaluated function starts from
EmptyResult(t) ==
  [timestamp |-> t,
   solar |-> [load |-> NULL, status |-> NULL],
   grid |-> [load |-> NULL, status |-> NULL],
   battery |-> [load |-> NULL, soc |-> NULL, status |-> NULL],
   car |-> [load |-> NULL, status |-> NULL],
   consumption |-> [load |-> NULL, status |-> NULL],
   mfrr |-> NULL]

\* what extractLoad / extractStatus / extractSoC / the mFRR match yield on
\* a card in state st
Read(st) == IF st = "full" THEN Val ELSE NULL

\* the result after the card named k has been looked for
Filled(res, k, st) ==
  IF st = "absent" THEN res
  ELSE IF k = "mfrr"
       THEN IF st = "full" THEN SetKey(res, k, Read(st)) ELSE res
       ELSE IF k = "battery"
            THEN SetKey(res, k,
                   SetKey(SetKey(SetKey(res[k], "load", Read(st)),
                                 "soc", Read(st)),
                          "status", Read(st)))
            ELSE SetKey(res, k,
                   SetKey(SetKey(res[k], "load", Read(st)),
                          "status", Read(st)))

\* page.evaluate() starts: the function builds its result object
EvalBegin ==
  /\ epc.at = "idle"
  /\ Len(heap) < MaxSnap
  /\ epc' = [at |-> "card", i |-> 1]
  /\ result' = EmptyResult(Len(heap) + 1)
  /\ UNCHANGED <<variant, txt, scraperVars, live, authed, calls, serverVars,
                 audit, faulty, loginFailed, doc, heap, seen, nav, lgn>>

\* the function looks for its next card and fills the result from it
FillCard ==
  /\ epc.at = "card"
  /\ result' = Filled(result, Cards[epc.i], doc[Cards[epc.i]])
  /\ epc' = IF epc.i < Len(Cards)
            THEN [epc EXCEPT !.i = @ + 1]
            ELSE [at |-> "return", i |-> 0]
  /\ UNCHANGED <<variant, txt, scraperVars, live, authed, calls, serverVars,
                 audit, faulty, loginFailed, doc, heap, seen, nav, lgn>>

\* page.evaluate() resolves with the object, and this.latestData = data
EvaluateReturns ==
  /\ epc.at = "return"
  /\ heap' = Append(heap, result)
  /\ latestData' = Len(heap) + 1
  /\ epc' = [at |-> "idle", i |-> 0]
  /\ UNCHANGED <<variant, txt, browser, page, isLoggedIn, live, authed, calls,
                 serverVars, audit, faulty, loginFailed, doc, result,
                 seen, nav, lgn>>

\* getLatestData(), called by a reader at any moment
GetLatestData ==
  /\ epc.at # "off"
  /\ seen' = latestData
  /\ UNCHANGED <<variant, txt, scraperVars, live, authed, calls, serverVars,
                 audit, faulty, loginFailed, epc, doc, result, heap, nav,
                 lgn>>

ExtractNext ==
  \/ EvalBegin
  \/ FillCard
  \/ EvaluateReturns
  \/ GetLatestData

\* the scraper on the plant page, logged in, nothing extracted yet; the
\* page holds any combination of cards
ExtractInit ==
  /\ variant \in Variants
  /\ browser = 1
  /\ page = 1
  /\ isLoggedIn = TRUE
  /\ latestData = NULL
  /\ live = {1}
  /\ authed = {1}
  /\ calls = [c \in Calls |-> IdleCall]
  /\ phase = "boot"
  /\ scrapeTimer = FALSE
  /\ timers = 0
  /\ idleTooLong = FALSE
  /\ response = NoResponse
  /\ request = NoRequest
  /\ audit = TRUE
  /\ faulty = TRUE
  /\ loginFailed = {}
  /\ epc = [at |-> "idle", i |-> 0]
  /\ doc \in [{Cards[i] : i \in 1..Len(Cards)} -> CardStates]
  /\ result = <<>>
  /\ heap = <<>>
  /\ seen = NULL
  /\ nav = [pc |-> "off"]
  /\ lgn = [pc |-> "off"]
  /\ txt = [pc |-> "off"]

ExtractSpec == ExtractInit /\ [][ExtractNext]_vars

\* ------------------------------------------- navigateToPlant, in detail

\* where the page can be after a navigation: the plant view, the plant
\* list, the login route
NavUrls == {UrlPlant, UrlPlantList, UrlLoginRoute}

\* isOnPlantPage of src/src/scraper.js
IsOnPlantPage(url) == Includes(url, KwPlantRoute)

\* the selector is one a browser's querySelector accepts: :contains() is
\* no CSS, and waitForSelector rejects for a selector list that has it
ValidCss(sel) == ~Includes(sel, KwContains)

\* navigateToPlant is over, normally or with the error msg
NavOk(n) == [n EXCEPT !.pc = "done", !.out = "ok"]
NavThrew(n, msg) == [n EXCEPT !.pc = "done", !.out = "threw", !.msg = msg]

\* src/src/scraper.js, the final check and what follows it: the terminal
\* error unless the URL is the plant's, then the wait for Solar / Grid
JsFinalCheck(n) ==
  LET m == [n EXCEPT !.checked = TRUE]
  IN IF IsOnPlantPage(m.url)
     THEN [m EXCEPT !.pc = "markers"]
     ELSE NavThrew(m, MsgNavFailed(m.url))

\* src/src/scraper.js, after a direct attempt and its three-second wait:
\* on the plant's URL the final check follows, else the next strategy
JsAfterAttempt(n) ==
  IF IsOnPlantPage(n.url)
  THEN JsFinalCheck(n)
  ELSE [n EXCEPT !.pc = IF n.tried = 0 THEN "second" ELSE "selector",
                 !.tried = @ + 1]

\* the strategy op was carried out and the page is on url; or it was
\* started and the driver rejected
Did(n, op, url) ==
  [n EXCEPT !.url = url, !.steps = Append(@, op),
            !.landed = Append(@, url)]
Tried(n, op) == [n EXCEPT !.steps = Append(@, op)]

\* src/src/scraper.js: on the plant's URL reload(), else goto(targetUrl);
\* it settles
JsFirst ==
  /\ variant = "scraper_js"
  /\ nav.pc = "first"
  /\ LET op == IF IsOnPlantPage(nav.url) THEN "reload" ELSE "deep"
     IN \/ \E u \in NavUrls :
             nav' = JsAfterAttempt([Did(nav, op, u) EXCEPT
                                      !.via = "direct"])
        \/ nav' = NavThrew(Tried(nav, op), MsgTimeout)
  /\ UNCHANGED <<variant, txt, scraperVars, live, authed, calls, serverVars,
                 audit, faulty, loginFailed, epc, doc, result, heap, seen,
                 lgn>>

\* src/src/scraper.js: the second goto(targetUrl) settles
JsSecond ==
  /\ variant = "scraper_js"
  /\ nav.pc = "second"
  /\ \/ \E u \in NavUrls :
          nav' = JsAfterAttempt([Did(nav, "deep", u) EXCEPT
                                   !.via = "direct"])
     \/ nav' = NavThrew(Tried(nav, "deep"), MsgTimeout)
  /\ UNCHANGED <<variant, txt, scraperVars, live, authed, calls, serverVars,
                 audit, faulty, loginFailed, epc, doc, result, heap, seen,
                 lgn>>

\* src/src/scraper.js, the fallback: waitForSelector settles; with an
\* element found it is clicked and the navigation awaited; any rejection
\* is caught and logged; then the final check
JsFallback ==
  /\ variant = "scraper_js"
  /\ nav.pc = "selector"
  /\ IF ValidCss(FallbackSelector) /\ nav.link /\ nav.url = UrlPlantList
     THEN \E u \in NavUrls :
            nav' = JsFinalCheck([Did(nav, "click", u) EXCEPT
                                   !.via = "fallback"])
     ELSE nav' = JsFinalCheck(nav)
  /\ UNCHANGED <<variant, txt, scraperVars, live, authed, calls, serverVars,
                 audit, faulty, loginFailed, epc, doc, result, heap, seen,
                 lgn>>

\* src/src/scraper.js: the wait for a Solar / Grid marker settles; its
\* timeout leaves navigateToPlant as the driver's error
JsMarkers ==
  /\ variant = "scraper_js"
  /\ nav.pc = "markers"
  /\ \/ nav' = NavOk([nav EXCEPT !.markers = TRUE])
     \/ nav' = NavThrew(nav, MsgTimeout)
  /\ UNCHANGED <<variant, txt, scraperVars, live, authed, calls, serverVars,
                 audit, faulty, loginFailed, epc, doc, result, heap, seen,
                 lgn>>

\* part_000: goto('#/plants') settles; it stands outside the try block
P0List ==
  /\ variant = "part_000"
  /\ nav.pc = "first"
  /\ \/ \E u \in {UrlPlantList, UrlLoginRoute} :
          nav' = [Did(nav, "list", u) EXCEPT !.pc = "listWait"]
     \/ nav' = NavThrew(Tried(nav, "list"), MsgTimeout)
  /\ UNCHANGED <<variant, txt, scraperVars, live, authed, calls, serverVars,
                 audit, faulty, loginFailed, epc, doc, result, heap, seen,
                 lgn>>

\* part_000: the wait for the text 'Lao 8a' settles; found, the element is
\* looked up and clicked; a timeout, no such element or a failed click
\* lead to the deep link
P0ListWait ==
  /\ variant = "part_000"
  /\ nav.pc = "listWait"
  /\ \/ /\ nav.link /\ nav.url = UrlPlantList
        /\ \E u \in {UrlPlant, UrlPlantList} :
             nav' = [Did(nav, "click", u) EXCEPT !.pc = "dashWait"]
     \/ nav' = [nav EXCEPT !.pc = "deep"]
  /\ UNCHANGED <<variant, txt, scraperVars, live, authed, calls, serverVars,
                 audit, faulty, loginFailed, epc, doc, result, heap, seen,
                 lgn>>

\* part_000: after the click, the wait for a Solar / Grid marker settles;
\* a timeout leads to the deep link
P0DashWait ==
  /\ variant = "part_000"
  /\ nav.pc = "dashWait"
  /\ \/ nav' = [nav EXCEPT !.markers = TRUE, !.via = "list",
                            !.pc = "finalEval"]
     \/ nav' = [nav EXCEPT !.pc = "deep"]
  /\ UNCHANGED <<variant, txt, scraperVars, live, authed, calls, serverVars,
                 audit, faulty, loginFailed, epc, doc, result, heap, seen,
                 lgn>>

\* part_000, the catch block: goto('#/plants/290') settles; its rejection
\* leaves navigateToPlant
P0Deep ==
  /\ variant = "part_000"
  /\ nav.pc = "deep"
  /\ \/ \E u \in NavUrls :
          nav' = [Did(nav, "deep", u) EXCEPT !.via = "deep",
                                             !.markers = FALSE,
                                             !.pc = "finalEval"]
     \/ nav' = NavThrew(Tried(nav, "deep"), MsgTimeout)
  /\ UNCHANGED <<variant, txt, scraperVars, live, authed, calls, serverVars,
                 audit, faulty, loginFailed, epc, doc, result, heap, seen,
                 lgn>>

\* part_000, the final check: page.evaluate() settles with whether the
\* body text has Solar or Grid; without it the terminal error
P0FinalEval ==
  /\ variant = "part_000"
  /\ nav.pc = "finalEval"
  /\ \/ \E onPage \in BOOLEAN :
          /\ nav.markers => onPage
          /\ nav' = IF onPage
                    THEN NavOk([nav EXCEPT !.checked = TRUE,
                                           !.markers = TRUE])
                    ELSE NavThrew([nav EXCEPT !.checked = TRUE],
                                  MsgNavFailed(nav.url))
     \/ nav' = NavThrew(nav, MsgSessionClosed)
  /\ UNCHANGED <<variant, txt, scraperVars, live, authed, calls, serverVars,
                 audit, faulty, loginFailed, epc, doc, result, heap, seen,
                 lgn>>

NavNext ==
  \/ JsFirst
  \/ JsSecond
  \/ JsFallback
  \/ JsMarkers
  \/ P0List
  \/ P0ListWait
  \/ P0DashWait
  \/ P0Deep
  \/ P0FinalEval

\* navigateToPlant() is called: logged in, the page on some URL, the plant
\* list with or without an element that leads to the plant. As history:
\* url0 (the URL at the call), steps (the strategies started, in order:
\* "reload", "deep", "list", "click") and landed (where the page was after
\* each one that settled)
NavInit ==
  /\ variant \in Variants
  /\ browser = 1
  /\ page = 1
  /\ isLoggedIn = TRUE
  /\ latestData \in {NULL, 1}
  /\ live = {1}
  /\ authed = {1}
  /\ calls = [c \in Calls |-> IdleCall]
  /\ phase = "boot"
  /\ scrapeTimer = FALSE
  /\ timers = 0
  /\ idleTooLong = FALSE
  /\ response = NoResponse
  /\ request = NoRequest
  /\ audit = TRUE
  /\ faulty = TRUE
  /\ loginFailed = {}
  /\ epc = [at |-> "off", i |-> 0]
  /\ doc = <<>>
  /\ result = <<>>
  /\ heap = <<>>
  /\ seen = NULL
  /\ \E u \in NavUrls, l \in BOOLEAN :
       nav = [pc |-> "first", url |-> u, link |-> l, markers |-> FALSE,
              checked |-> FALSE, out |-> "none", msg |-> <<>>,
              via |-> "none", tried |-> 0, data0 |-> latestData,
              url0 |-> u, steps |-> <<>>, landed |-> <<>>]
  /\ lgn = [pc |-> "off"]
  /\ txt = [pc |-> "off"]

NavSpec == NavInit /\ [][NavNext]_vars

\* ----------------------------------------------------- login, in detail

\* a slip: the catch block rethrows the error it caught
LoginCatchRethrows(err) == err

\* login()'s catch block: whatever was thrown, the caller gets this
LoginCatch(err) == MsgLoginFailed

\* login() is left through its catch block with the error err
LoginThrew(l, err) ==
  [l EXCEPT !.pc = "done", !.out = "threw", !.err = err,
            !.msg = LoginCatch(err)]

\* the end of the try block: this.isLoggedIn = true
LoginOk(l) == [l EXCEPT !.pc = "done", !.out = "ok"]

\* the URL test of src/src/scraper.js after the submit
StillOnLogin(url) == Includes(url, KwLogin) \/ Includes(url, KwSignin)

\* goto(root) settles; on a null page it is a TypeError
LGoto ==
  /\ lgn.pc = "goto"
  /\ \/ /\ page # NULL
        /\ lgn' = [lgn EXCEPT !.pc = "form"]
     \/ lgn' = LoginThrew(lgn, IF page = NULL THEN MsgNullPage
                               ELSE MsgTimeout)
  /\ UNCHANGED isLoggedIn
  /\ UNCHANGED <<variant, txt, browser, page, latestData, live, authed, calls,
                 serverVars, audit, faulty, loginFailed, epc, doc, result,
                 heap, seen, nav>>

\* the wait for the e-mail input settles: found, or not in time
LForm ==
  /\ lgn.pc = "form"
  /\ \/ lgn' = [lgn EXCEPT !.pc = "email"]
     \/ lgn' = LoginThrew(lgn, MsgTimeout)
  /\ UNCHANGED isLoggedIn
  /\ UNCHANGED <<variant, txt, browser, page, latestData, live, authed, calls,
                 serverVars, audit, faulty, loginFailed, epc, doc, result,
                 heap, seen, nav>>

\* the e-mail is typed, the password input looked up and the password
\* typed; without a password input the call on null is a TypeError
LCredentials ==
  /\ lgn.pc = "email"
  /\ \/ /\ lgn.pwd
        /\ lgn' = [lgn EXCEPT !.pc = "submit"]
     \/ /\ ~lgn.pwd
        /\ lgn' = LoginThrew(lgn, MsgNullPage)
     \/ lgn' = LoginThrew(lgn, MsgSessionClosed)
  /\ UNCHANGED isLoggedIn
  /\ UNCHANGED <<variant, txt, browser, page, latestData, live, authed, calls,
                 serverVars, audit, faulty, loginFailed, epc, doc, result,
                 heap, seen, nav>>

\* the submit action part_000 takes on a page that offers button: a click
\* on the primary submit button, else on the generic one, else Enter in
\* the password input
P0Action(button) == IF button = "none" THEN "enter" ELSE button

\* part_000: the form is submitted, by the primary button, else by the
\* generic one, else by Enter; the wait for the URL to change may time
\* out, which is logged only; the site takes the form away (gone) or
\* leaves it. The click or key press may reject
P0Submit ==
  /\ variant = "part_000"
  /\ lgn.pc = "submit"
  /\ LET l == [lgn EXCEPT !.via = P0Action(lgn.button),
                          !.submits = Append(@, P0Action(lgn.button))]
     IN \/ \E timedOut \in BOOLEAN, gone \in BOOLEAN :
             lgn' = [l EXCEPT !.pc = "verify",
                              !.urlWait = IF timedOut THEN "timeout"
                                          ELSE "ok",
                              !.pwdAfter = ~gone]
        \/ lgn' = LoginThrew(l, MsgSessionClosed)
  /\ UNCHANGED isLoggedIn
  /\ UNCHANGED <<variant, txt, browser, page, latestData, live, authed, calls,
                 serverVars, audit, faulty, loginFailed, epc, doc, result,
                 heap, seen, nav>>

\* part_000: the wait for the password input to disappear settles; when
\* it is still there one of two errors is thrown, by the text of the
\* page; the driver may reject either way
P0Verify ==
  /\ variant = "part_000"
  /\ lgn.pc = "verify"
  /\ \/ /\ ~lgn.pwdAfter
        /\ lgn' = LoginOk([lgn EXCEPT !.verified = TRUE])
        /\ isLoggedIn' = TRUE
     \/ /\ lgn.pwdAfter
        /\ \E err \in {MsgInvalidCredentials, MsgStayedOnLogin} :
             lgn' = LoginThrew(lgn, err)
        /\ UNCHANGED isLoggedIn
     \/ /\ lgn' = LoginThrew(lgn, MsgSessionClosed)
        /\ UNCHANGED isLoggedIn
  /\ UNCHANGED <<variant, txt, browser, page, latestData, live, authed, calls,
                 serverVars, audit, faulty, loginFailed, epc, doc, result,
                 heap, seen, nav>>

\* src/src/scraper.js: Enter is pressed, whatever buttons the form has,
\* and the navigation awaited, whose timeout is thrown; then the URL is
\* tested, and nothing else: the form may be gone or not
JsSubmit ==
  /\ variant = "scraper_js"
  /\ lgn.pc = "submit"
  /\ LET l == [lgn EXCEPT !.via = "enter",
                          !.submits = Append(@, "enter")]
     IN \/ \E u \in {UrlRoot, UrlPlantList, UrlLoginRoute},
               gone \in BOOLEAN :
             IF StillOnLogin(u)
             THEN /\ lgn' = LoginThrew([l EXCEPT !.urlWait = "ok",
                                                 !.pwdAfter = ~gone],
                                       MsgStillOnLogin)
                  /\ UNCHANGED isLoggedIn
             ELSE /\ lgn' = LoginOk([l EXCEPT !.urlWait = "ok",
                                              !.pwdAfter = ~gone,
                                              !.verified = TRUE])
                  /\ isLoggedIn' = TRUE
        \/ /\ lgn' = LoginThrew([l EXCEPT !.urlWait = "timeout",
                                           !.pwdAfter = TRUE],
                                 MsgTimeout)
           /\ UNCHANGED isLoggedIn
  /\ UNCHANGED <<variant, txt, browser, page, latestData, live, authed, calls,
                 serverVars, audit, faulty, loginFailed, epc, doc, result,
                 heap, seen, nav>>

LoginNext ==
  \/ LGoto
  \/ LForm
  \/ LCredentials
  \/ P0Submit
  \/ P0Verify
  \/ JsSubmit

\* login() is called by scrape(): a browser, not logged in, the page
\* there or not (initialize() left half-way), the login form with or
\* without password input and submit buttons. As history: submits (the
\* submit actions taken), urlWait (how the wait for the URL to change or
\* for the navigation ended) and pwdAfter (the password input is still
\* on the page after the submit)
LoginInit ==
  /\ variant \in Variants
  /\ browser = 1
  /\ page \in {NULL, 1}
  /\ isLoggedIn = FALSE
  /\ latestData \in {NULL, 1}
  /\ live = {1}
  /\ authed = {}
  /\ calls = [c \in Calls |-> IdleCall]
  /\ phase = "boot"
  /\ scrapeTimer = FALSE
  /\ timers = 0
  /\ idleTooLong = FALSE
  /\ response = NoResponse
  /\ request = NoRequest
  /\ audit = TRUE
  /\ faulty = TRUE
  /\ loginFailed = {}
  /\ epc = [at |-> "off", i |-> 0]
  /\ doc = <<>>
  /\ result = <<>>
  /\ heap = <<>>
  /\ seen = NULL
  /\ nav = [pc |-> "off"]
  /\ \E p \in BOOLEAN, b \in {"primary", "generic", "none"} :
       lgn = [pc |-> "goto", pwd |-> p, button |-> b, out |-> "none",
              msg |-> <<>>, err |-> <<>>, via |-> "none",
              verified |-> FALSE, submits |-> <<>>, urlWait |-> "none",
              pwdAfter |-> FALSE]
  /\ txt = [pc |-> "off"]

LoginSpec == LoginInit /\ [][LoginNext]_vars

\* ------------------------------------------ the extractor, on page text

(* "Load:" *)
KwLoad == <<"L", "o", "a", "d", ":">>

(* "SoC:" *)
KwSoC == <<"S", "o", "C", ":">>

(* "mfrr" *)
KwMfrr == <<"m", "f", "r", "r">>

(* "Solar" *)
KwSolar == <<"S", "o", "l", "a", "r">>

(* "Grid" *)
KwGrid == <<"G", "r", "i", "d">>

(* "Battery" *)
KwBattery == <<"B", "a", "t", "t", "e", "r", "y">>

(* "Car" *)
KwCar == <<"C", "a", "r">>

(* "Consumption" *)
KwConsumption == <<"C", "o", "n", "s", "u", "m", "p", "t", "i", "o", "n">>

\* findElement's ceiling on text.length
TextCeiling == 200

\* the ceiling on text.length of the mFRR element
MfrrCeiling == 500

DigitChars == <<"0", "1", "2", "3", "4", "5", "6", "7", "8", "9">>

UpperChars ==
  <<
    "A", "B", "C", "D", "E", "F", "G", "H", "I", "J", "K", "L", "M", "N",
    "O", "P", "Q", "R", "S", "T", "U", "V", "W", "X", "Y", "Z" >>

LowerChars ==
  <<
    "a", "b", "c", "d", "e", "f", "g", "h", "i", "j", "k", "l", "m", "n",
    "o", "p", "q", "r", "s", "t", "u", "v", "w", "x", "y", "z" >>

\* the characters \s matches and trim() strips
IsSpace(ch) == ch \in {" ", "\n", "\t"}

\* the characters \d matches
IsDigit(ch) == \E i \in 1..Len(DigitChars) : DigitChars[i] = ch

DigitVal(ch) == (CHOOSE i \in 1..Len(DigitChars) : DigitChars[i] = ch) - 1

\* toLowerCase(), and the i flag of the patterns, on one character
Lower(ch) ==
  IF \E i \in 1..Len(UpperChars) : UpperChars[i] = ch
  THEN LowerChars[CHOOSE i \in 1..Len(UpperChars) : UpperChars[i] = ch]
  ELSE ch

LowerText(s) == [i \in 1..Len(s) |-> Lower(s[i])]

\* the character at position i, none past the end
At(s, i) == IF i \in 1..Len(s) THEN s[i] ELSE ""

\* where \s* and \d*, matching greedily from position i, end
SkipSpaces(s, i) ==
  IF i > Len(s) THEN i
  ELSE CHOOSE j \in i..(Len(s) + 1) :
         /\ ~IsSpace(At(s, j))
         /\ \A k \in i..(j - 1) : IsSpace(s[k])

SkipDigits(s, i) ==
  IF i > Len(s) THEN i
  ELSE CHOOSE j \in i..(Len(s) + 1) :
         /\ ~IsDigit(At(s, j))
         /\ \A k \in i..(j - 1) : IsDigit(s[k])

\* the keyword stands at position i, letter case ignored
KeywordAt(s, i, kw) ==
  /\ i + Len(kw) - 1 <= Len(s)
  /\ LowerText(SubSeq(s, i, i + Len(kw) - 1)) = LowerText(kw)

\* null where a number is expected, null where a text is, and a value
Absent == [some |-> FALSE, v |-> 0]
AbsentText == [some |-> FALSE, v |-> <<>>]
Present(v) == [some |-> TRUE, v |-> v]

RECURSIVE Number(_)
\* the value of a run of decimal digits
Number(ds) ==
  IF ds = <<>> THEN 0
  ELSE 10 * Number(SubSeq(ds, 1, Len(ds) - 1)) + DigitVal(ds[Len(ds)])

\* parseInt on what (-?\d+) captured
ParseInt(cap) ==
  IF cap[1] = "-" THEN 0 - Number(Tail(cap)) ELSE Number(cap)

\* /Load:\s*(-?\d+)\s*W/i tried at position i: whether it matches there,
\* and the group it captures
LoadMatch(s, i) ==
  LET a == i + Len(KwLoad)
      b == SkipSpaces(s, a)
      c == IF At(s, b) = "-" THEN b + 1 ELSE b
      d == SkipDigits(s, c)
      e == SkipSpaces(s, d)
  IN [ok |-> KeywordAt(s, i, KwLoad) /\ d > c /\ Lower(At(s, e)) = "w",
      cap |-> SubSeq(s, b, d - 1)]

\* the least member of a non-empty set of positions
First(S) == CHOOSE i \in S : \A j \in S : i <= j

\* a slip: the value is passed through || null, and a reading of 0 is lost
ExtractLoadFalsy(text) ==
  LET hits == {i \in 1..Len(text) : LoadMatch(text, i).ok}
  IN IF hits = {} \/ ParseInt(LoadMatch(text, First(hits)).cap) = 0
     THEN Absent
     ELSE Present(ParseInt(LoadMatch(text, First(hits)).cap))

\* extractLoad: the leftmost match, its group parsed, or null
ExtractLoad(text) ==
  LET hits == {i \in 1..Len(text) : LoadMatch(text, i).ok}
  IN IF hits = {} THEN Absent
     ELSE Present(ParseInt(LoadMatch(text, First(hits)).cap))

\* /SoC:\s*(\d+)%/i tried at position i
SocMatch(s, i) ==
  LET a == i + Len(KwSoC)
      b == SkipSpaces(s, a)
      d == SkipDigits(s, b)
  IN [ok |-> KeywordAt(s, i, KwSoC) /\ d > b /\ At(s, d) = "%",
      cap |-> SubSeq(s, b, d - 1)]

\* extractSoC
ExtractSoC(text) ==
  LET hits == {i \in 1..Len(text) : SocMatch(text, i).ok}
  IN IF hits = {} THEN Absent
     ELSE Present(ParseInt(SocMatch(text, First(hits)).cap))

RECURSIVE Split(_)
\* text.split('\n')
Split(s) ==
  IF \A i \in 1..Len(s) : s[i] # "\n" THEN <<s>>
  ELSE LET i == First({j \in 1..Len(s) : s[j] = "\n"})
       IN <<SubSeq(s, 1, i - 1)>> \o Split(SubSeq(s, i + 1, Len(s)))

\* l.trim()
Trim(l) ==
  LET inner == {i \in 1..Len(l) : ~IsSpace(l[i])}
  IN IF inner = {} THEN <<>>
     ELSE SubSeq(l, First(inner),
                 CHOOSE i \in inner : \A j \in inner : j <= i)

NotEmpty(l) == Len(l) > 0

\* the lines of the text, trimmed, the empty ones dropped
Lines(text) ==
  LET parts == Split(text)
  IN SelectSeq([i \in 1..Len(parts) |-> Trim(parts[i])], NotEmpty)

\* s.startsWith(p)
StartsWith(s, p) == Len(s) >= Len(p) /\ SubSeq(s, 1, Len(p)) = p

\* a slip: the lines are not trimmed before the empty ones are dropped
ExtractStatusUntrimmed(text) ==
  LET lines == SelectSeq(Split(text), NotEmpty)
  IN IF /\ Len(lines) >= 2
        /\ ~StartsWith(lines[2], KwLoad)
        /\ ~StartsWith(lines[2], KwSoC)
     THEN Present(lines[2])
     ELSE AbsentText

\* extractStatus: the second non-empty line, unless it is a Load: or SoC:
\* line
ExtractStatus(text) ==
  LET lines == Lines(text)
  IN IF /\ Len(lines) >= 2
        /\ ~StartsWith(lines[2], KwLoad)
        /\ ~StartsWith(lines[2], KwSoC)
     THEN Present(lines[2])
     ELSE AbsentText

\* ------------------------------------------- one card's text, looked up

\* a line of a card as rendered (raw) and what it says (core)
Line(raw, core) == [raw |-> raw, core |-> core]

RECURSIVE NatText(_)
\* a number as the page renders it
NatText(n) ==
  IF n < 10 THEN <<DigitChars[n + 1]>>
  ELSE NatText(n \div 10) \o <<DigitChars[(n % 10) + 1]>>

IntText(n) == IF n < 0 THEN <<"-">> \o NatText(0 - n) ELSE NatText(n)

\* the readings the cards show
Loads == {0 - 123, 0, 450}

\* a load line in the page's format, 'Load: n W'
PlainLoad(n) == KwLoad \o <<" ">> \o IntText(n) \o <<" ", "W">>

\* what a card can hold between its name and its status: nothing, or a
\* line of blanks
BlankOptions == {<<>>, <<Line(<<" ", " ">>, <<>>)>>}

\* the status line of a card: none, 'Charging', or ' Idle ' with blanks
\* around it
StatusOptions ==
  {<<>>,
   <<Line(<<"C", "h", "a", "r", "g", "i", "n", "g">>,
          <<"C", "h", "a", "r", "g", "i", "n", "g">>)>>,
   <<Line(<<" ", " ", "I", "d", "l", "e", " ">>,
          <<"I", "d", "l", "e">>)>>}

\* the load line of a card: none; 'Load: n W'; and other renderings:
\* 'Load:-123W', 'load: 450 w', 'Load: 450 kW', 'Load: 450.5 W'
LoadOptions ==
  {[fmt |-> "none", n |-> 0, line |-> <<>>]}
  \cup {[fmt |-> "plain", n |-> n,
         line |-> <<Line(PlainLoad(n), PlainLoad(n))>>] : n \in Loads}
  \cup {[fmt |-> "tight", n |-> 0 - 123,
         line |-> <<Line(KwLoad \o IntText(0 - 123) \o <<"W">>,
                         KwLoad \o IntText(0 - 123) \o <<"W">>)>>],
        [fmt |-> "lower", n |-> 450,
         line |-> <<Line(LowerText(PlainLoad(450)),
                         LowerText(PlainLoad(450)))>>],
        [fmt |-> "kilo", n |-> 450,
         line |-> <<Line(KwLoad \o <<" ">> \o IntText(450)
                           \o <<" ", "k", "W">>,
                         KwLoad \o <<" ">> \o IntText(450)
                           \o <<" ", "k", "W">>)>>],
        [fmt |-> "fraction", n |-> 450,
         line |-> <<Line(KwLoad \o <<" ">> \o IntText(450)
                           \o <<".", "5", " ", "W">>,
                         KwLoad \o <<" ">> \o IntText(450)
                           \o <<".", "5", " ", "W">>)>>]}

\* the state-of-charge line of a battery card: none, 'SoC: 78%', or
\* 'SoC: 78 %'
SocOptions ==
  {[fmt |-> "none", n |-> 0, line |-> <<>>],
   [fmt |-> "plain", n |-> 78,
    line |-> <<Line(KwSoC \o <<" ">> \o IntText(78) \o <<"%">>,
                    KwSoC \o <<" ">> \o IntText(78) \o <<"%">>)>>],
   [fmt |-> "spaced", n |-> 78,
    line |-> <<Line(KwSoC \o <<" ">> \o IntText(78) \o <<" ", "%">>,
                    KwSoC \o <<" ">> \o IntText(78) \o <<" ", "%">>)>>]}

RECURSIVE JoinLines(_)
\* innerText: the lines as rendered, a line break between them
JoinLines(lines) ==
  IF Len(lines) = 0 THEN <<>>
  ELSE IF Len(lines) = 1 THEN lines[1].raw
       ELSE lines[1].raw \o <<"\n">> \o JoinLines(Tail(lines))

\* the card of a device: its name, then the lines it holds
CardLines(dev, blank, status, load, soc) ==
  <<Line(IF dev = "battery" THEN KwBattery ELSE KwSolar,
         IF dev = "battery" THEN KwBattery ELSE KwSolar)>>
    \o blank \o status \o load.line
    \o (IF dev = "battery" THEN soc.line ELSE <<>>)

\* the cards the lookup is run on
Fragments ==
  {[dev |-> dev, load |-> load, soc |-> soc,
    lines |-> CardLines(dev, blank, status, load, soc)] :
     dev \in {"battery"}, blank \in BlankOptions,
     status \in StatusOptions, load \in LoadOptions, soc \in SocOptions}
  \cup
  {[dev |-> dev, load |-> load, soc |-> soc,
    lines |-> CardLines(dev, blank, status, load, soc)] :
     dev \in {"solar"}, blank \in BlankOptions,
     status \in StatusOptions, load \in LoadOptions,
     soc \in {[fmt |-> "none", n |-> 0, line |-> <<>>]}}

\* result.<device>.load = extractLoad(text)
CardLoad ==
  /\ txt.pc = "load"
  /\ txt' = [txt EXCEPT !.load = ExtractLoad(txt.text),
                        !.pc = IF txt.src.dev = "battery" THEN "soc"
                               ELSE "status"]
  /\ UNCHANGED <<variant, scraperVars, live, authed, calls, serverVars,
                 audit, faulty, loginFailed, epc, doc, result, heap, seen,
                 nav, lgn>>

\* result.battery.soc = extractSoC(text)
CardSoC ==
  /\ txt.pc = "soc"
  /\ txt' = [txt EXCEPT !.soc = ExtractSoC(txt.text), !.pc = "status"]
  /\ UNCHANGED <<variant, scraperVars, live, authed, calls, serverVars,
                 audit, faulty, loginFailed, epc, doc, result, heap, seen,
                 nav, lgn>>

\* result.<device>.status = extractStatus(text)
CardStatus ==
  /\ txt.pc = "status"
  /\ txt' = [txt EXCEPT !.status = ExtractStatus(txt.text), !.pc = "done"]
  /\ UNCHANGED <<variant, scraperVars, live, authed, calls, serverVars,
                 audit, faulty, loginFailed, epc, doc, result, heap, seen,
                 nav, lgn>>

CardNext ==
  \/ CardLoad
  \/ CardSoC
  \/ CardStatus

\* a card was found for a device and its text is about to be read
CardInit ==
  /\ variant \in Variants
  /\ browser = 1
  /\ page = 1
  /\ isLoggedIn = TRUE
  /\ latestData = NULL
  /\ live = {1}
  /\ authed = {1}
  /\ calls = [c \in Calls |-> IdleCall]
  /\ phase = "boot"
  /\ scrapeTimer = FALSE
  /\ timers = 0
  /\ idleTooLong = FALSE
  /\ response = NoResponse
  /\ request = NoRequest
  /\ audit = TRUE
  /\ faulty = TRUE
  /\ loginFailed = {}
  /\ epc = [at |-> "off", i |-> 0]
  /\ doc = <<>>
  /\ result = <<>>
  /\ heap = <<>>
  /\ seen = NULL
  /\ nav = [pc |-> "off"]
  /\ lgn = [pc |-> "off"]
  /\ \E f \in Fragments :
       txt = [pc |-> "load", src |-> f, text |-> JoinLines(f.lines),
              load |-> Absent, soc |-> Absent, status |-> AbsentText]

CardSpec == CardInit /\ [][CardNext]_vars

\* ------------------------------------------ the document, looked through

\* the devices, in the order the evaluated function looks for them
Devices == <<"solar", "grid", "battery", "car", "consumption">>
DeviceSet == {Devices[i] : i \in 1..Len(Devices)}

\* the keyword findElement is called with for a device
Label(k) ==
  CASE k = "solar" -> KwSolar
    [] k = "grid" -> KwGrid
    [] k = "battery" -> KwBattery
    [] k = "car" -> KwCar
    [] k = "consumption" -> KwConsumption

\* findElement: the first element, in document order, whose text has the
\* keyword and 'Load:' and is shorter than the ceiling; 0 for undefined
FindElement(els, keyword) ==
  LET hits == {i \in 1..Len(els) :
                 /\ Includes(els[i], keyword)
                 /\ Includes(els[i], KwLoad)
                 /\ Len(els[i]) < TextCeiling}
  IN IF hits = {} THEN 0 ELSE First(hits)

\* what the literal holds for a device, and what a card's text yields
NoReading(k) ==
  IF k = "battery"
  THEN [load |-> Absent, soc |-> Absent, status |-> AbsentText]
  ELSE [load |-> Absent, status |-> AbsentText]

CardReading(k, text) ==
  IF k = "battery"
  THEN [load |-> ExtractLoad(text), soc |-> ExtractSoC(text),
        status |-> ExtractStatus(text)]
  ELSE [load |-> ExtractLoad(text), status |-> ExtractStatus(text)]

\* mfrr: null, or a decimal number: its whole part and the digits of its
\* fraction
AbsentPrice == [some |-> FALSE, whole |-> 0, frac |-> <<>>]

\* the two characters the pattern of src/src/scraper.js has where
\* part_000 has the euro sign: U+00E2 and U+201A (then an optional U+00AC)
CharACircumflex == "U+00E2"
CharLowQuote == "U+201A"

\* /mFRR[\s\n]*(\d+\.?\d*)\s*<euro>?/i tried at position i; in
\* src/src/scraper.js the pattern ends in two characters that are not
\* optional
MfrrMatch(s, i) ==
  LET a == i + Len(KwMfrr)
      b == SkipSpaces(s, a)
      d == SkipDigits(s, b)
      e == IF At(s, d) = "." THEN SkipDigits(s, d + 1) ELSE d
      f == SkipSpaces(s, e)
  IN [ok |-> /\ KeywordAt(s, i, KwMfrr)
             /\ d > b
             /\ variant = "scraper_js" =>
                  /\ At(s, f) = CharACircumflex
                  /\ At(s, f + 1) = CharLowQuote,
      whole |-> SubSeq(s, b, d - 1),
      frac |-> SubSeq(s, d + 1, e - 1)]

\* the digits of a fraction without the zeros at its end
StripZeros(ds) ==
  LET keep == {i \in 1..Len(ds) : ds[i] # "0"}
  IN IF keep = {} THEN <<>>
     ELSE SubSeq(ds, 1, CHOOSE i \in keep : \A j \in keep : j <= i)

\* parseFloat on what (\d+\.?\d*) captured
ParseFloat(whole, frac) ==
  [some |-> TRUE, whole |-> Number(whole), frac |-> StripZeros(frac)]

\* the mFRR lookup: the first element whose lower-cased text has 'mfrr'
\* and is shorter than its ceiling, and the number after the keyword
ExtractMfrr(els) ==
  LET hits == {i \in 1..Len(els) :
                 /\ Includes(LowerText(els[i]), KwMfrr)
                 /\ Len(els[i]) < MfrrCeiling}
      text == els[First(hits)]
      found == {i \in 1..Len(text) : MfrrMatch(text, i).ok}
  IN IF hits = {} \/ found = {} THEN AbsentPrice
     ELSE ParseFloat(MfrrMatch(text, First(found)).whole,
                     MfrrMatch(text, First(found)).frac)

\* the object literal the evaluated function starts from, its readings
EmptyReadings ==
  [solar |-> NoReading("solar"), grid |-> NoReading("grid"),
   battery |-> NoReading("battery"), car |-> NoReading("car"),
   consumption |-> NoReading("consumption"), mfrr |-> AbsentPrice]

(* "Solar\nProducing\nLoad: 450 W" *)
SolarCard ==
  <<
    "S", "o", "l", "a", "r", "\n", "P", "r", "o", "d", "u", "c", "i", "n",
    "g", "\n", "L", "o", "a", "d", ":", " ", "4", "5", "0", " ", "W" >>

(* "Grid\nExporting\nLoad: -123 W" *)
GridCard ==
  <<
    "G", "r", "i", "d", "\n", "E", "x", "p", "o", "r", "t", "i", "n", "g",
    "\n", "L", "o", "a", "d", ":", " ", "-", "1", "2", "3", " ", "W" >>

(* "Battery\nCharging\nLoad: 450 W\nSoC: 78%" *)
BatteryCard ==
  <<
    "B", "a", "t", "t", "e", "r", "y", "\n", "C", "h", "a", "r", "g", "i",
    "n", "g", "\n", "L", "o", "a", "d", ":", " ", "4", "5", "0", " ", "W",
    "\n", "S", "o", "C", ":", " ", "7", "8", "%" >>

(* "Car\nNot connected" *)
CarNotConnected ==
  <<
    "C", "a", "r", "\n", "N", "o", "t", " ", "c", "o", "n", "n", "e", "c",
    "t", "e", "d" >>

(* "Car\nLoad: 0 W" *)
CarCard ==
  <<
    "C", "a", "r", "\n", "L", "o", "a", "d", ":", " ", "0", " ", "W" >>

(* "Consumption\nLoad: 7 W" *)
ConsumptionCard ==
  <<
    "C", "o", "n", "s", "u", "m", "p", "t", "i", "o", "n", "\n", "L", "o",
    "a", "d", ":", " ", "7", " ", "W" >>

(* "mFRR\n12.50" *)
PriceCard ==
  <<
    "m", "F", "R", "R", "\n", "1", "2", ".", "5", "0" >>

(* "mFRR price" *)
PriceBare ==
  <<
    "m", "F", "R", "R", " ", "p", "r", "i", "c", "e" >>

\* what the page can show for each device and for the price: no card
\* (<<>>) or one of these
CardChoices ==
  [solar : {<<>>, SolarCard},
   grid : {<<>>, GridCard},
   battery : {<<>>, BatteryCard},
   car : {<<>>, CarNotConnected, CarCard},
   consumption : {<<>>, ConsumptionCard},
   mfrr : {<<>>, PriceCard, PriceBare}]

\* the element around the cards: none in reach of the lookups ("none"),
\* one whose text is just that of the cards ("tight"), or one with more
\* text than the ceiling allows ("roomy")
Wraps == {"none", "tight", "roomy"}

\* text beside the cards in a roomy container
Filler == [i \in 1..TextCeiling |-> "x"]

RECURSIVE JoinTexts(_)
\* the text of a container: that of its children, line by line
JoinTexts(ts) ==
  IF Len(ts) = 0 THEN <<>>
  ELSE IF Len(ts) = 1 THEN ts[1]
       ELSE ts[1] \o <<"\n">> \o JoinTexts(Tail(ts))

\* querySelectorAll('*'): the texts of the elements in document order, a
\* container before what it contains
Elements(wrap, card) ==
  LET leaves == SelectSeq(<<card.solar, card.grid, card.battery, card.car,
                            card.consumption, card.mfrr>>, NotEmpty)
  IN CASE wrap = "none" -> leaves
       [] wrap = "tight" -> <<JoinTexts(leaves)>> \o leaves
       [] wrap = "roomy" -> <<JoinTexts(leaves \o <<Filler>>)>> \o leaves

\* the function is entered: the literal is built
PageBegin ==
  /\ txt.pc = "begin"
  /\ txt' = [txt EXCEPT !.pc = "card", !.i = 1, !.res = EmptyReadings]
  /\ UNCHANGED <<variant, scraperVars, live, authed, calls, serverVars,
                 audit, faulty, loginFailed, epc, doc, result, heap, seen,
                 nav, lgn>>

\* a slip: the card is read without the test that one was found
PageCardUnguarded ==
  /\ txt.pc = "card"
  /\ LET k == Devices[txt.i]
         idx == FindElement(txt.els, Label(k))
     IN txt' =
          IF idx = 0 THEN [txt EXCEPT !.pc = "threw"]
          ELSE [txt EXCEPT
                  !.res = [txt.res EXCEPT ![k] = CardReading(k, txt.els[idx])],
                  !.i = IF txt.i < Len(Devices) THEN txt.i + 1 ELSE 0,
                  !.pc = IF txt.i < Len(Devices) THEN "card" ELSE "price"]
  /\ UNCHANGED <<variant, scraperVars, live, authed, calls, serverVars,
                 audit, faulty, loginFailed, epc, doc, result, heap, seen,
                 nav, lgn>>

\* the lookup of the next device: findElement, and with a card found its
\* text is read into the device's entry
PageCard ==
  /\ txt.pc = "card"
  /\ LET k == Devices[txt.i]
         idx == FindElement(txt.els, Label(k))
     IN txt' =
          [txt EXCEPT
             !.res = IF idx = 0 THEN txt.res
                     ELSE [txt.res EXCEPT
                             ![k] = CardReading(k, txt.els[idx])],
             !.i = IF txt.i < Len(Devices) THEN txt.i + 1 ELSE 0,
             !.pc = IF txt.i < Len(Devices) THEN "card" ELSE "price"]
  /\ UNCHANGED <<variant, scraperVars, live, authed, calls, serverVars,
                 audit, faulty, loginFailed, epc, doc, result, heap, seen,
                 nav, lgn>>

\* the lookup of the price, and the return of the result
PagePrice ==
  /\ txt.pc = "price"
  /\ txt' = [txt EXCEPT
               !.res = [txt.res EXCEPT !.mfrr = ExtractMfrr(txt.els)],
               !.pc = "done"]
  /\ UNCHANGED <<variant, scraperVars, live, authed, calls, serverVars,
                 audit, faulty, loginFailed, epc, doc, result, heap, seen,
                 nav, lgn>>

PageNext ==
  \/ PageBegin
  \/ PageCard
  \/ PagePrice

\* page.evaluate() is about to run the function on a page that shows any
\* combination of the cards, inside any of the containers
PageInit ==
  /\ variant \in Variants
  /\ browser = 1
  /\ page = 1
  /\ isLoggedIn = TRUE
  /\ latestData = NULL
  /\ live = {1}
  /\ authed = {1}
  /\ calls = [c \in Calls |-> IdleCall]
  /\ phase = "boot"
  /\ scrapeTimer = FALSE
  /\ timers = 0
  /\ idleTooLong = FALSE
  /\ response = NoResponse
  /\ request = NoRequest
  /\ audit = TRUE
  /\ faulty = TRUE
  /\ loginFailed = {}
  /\ epc = [at |-> "off", i |-> 0]
  /\ doc = <<>>
  /\ result = <<>>
  /\ heap = <<>>
  /\ seen = NULL
  /\ nav = [pc |-> "off"]
  /\ lgn = [pc |-> "off"]
  /\ \E w \in Wraps, c \in CardChoices :
       txt = [pc |-> "begin", i |-> 0, wrap |-> w, card |-> c,
              els |-> Elements(w, c), res |-> EmptyReadings]

PageSpec == PageInit /\ [][PageNext]_vars

\* ----------------------------------------------------------- the claims

ScrapeCalls == {c \in Calls : calls[c].op = "scrape"}
Initializing(c) == calls[c].pc \in {"launch", "newPage", "viewport"}
Extracting(c) == calls[c].pc \in {"waitData", "screenshot", "evaluate"}
Extracted(c) ==
  calls[c].log # <<>> /\ calls[c].log[Len(calls[c].log)] = "extract"
\* C1: within one outer call of scrape() the session is torn down and
\* rebuilt at most once: initialize() never runs after a second recovery
\* close() of the same call.
C1_RebuiltAtMostOnce ==
  \A c \in ScrapeCalls : Initializing(c) => calls[c].rebuilds <= 1

\* C2: every call of scrape() eventually returns to its caller (returns or
\* throws), each browser step completing or timing out.
C2_ScrapeReturns ==
  \A c \in Calls :
    (calls[c].op = "scrape" /\ InFlight(c)) ~>
      (calls[c].pc \in {"done", "threw"})

\* C3: scrape() never throws to its caller: every failure, that of close()
\* during recovery included, ends in a return of the cached snapshot.
C3_ScrapeNeverThrows ==
  \A c \in ScrapeCalls :
    /\ calls[c].pc # "threw"
    /\ (calls[c].pc = "done" /\ ~Extracted(c)) =>
         calls[c].result = calls[c].cache0

\* C4: a failed login() is session-fatal: the call does not return on it
\* but closes the browser and retries, so login() never starts on a browser
\* on which a login has failed before.
C4_LoginFailureRebuilds ==
  \A c \in ScrapeCalls :
    /\ calls[c].msg = MsgLoginFailed => calls[c].pc # "done"
    /\ calls[c].pc = "login" => calls[c].b \notin loginFailed

\* C5: on navigateToPlant()'s terminal error scrape() clears isLoggedIn,
\* closes the browser and retries; the retried cycle starts without browser
\* and login flag and runs initialize() and login() before it navigates.
C5_NavFailureRebuilds ==
  \A c \in ScrapeCalls :
    /\ calls[c].msg \in NavFailures =>
         /\ calls[c].pc \in {"closing", "backoff", "threw"}
         /\ ~isLoggedIn
    /\ calls[c].pc = "backoff" =>
         browser = NULL /\ page = NULL /\ ~isLoggedIn
    /\ (calls[c].rebuilds > 0 /\ Initializing(c)) =>
         calls[c].fresh /\ ~isLoggedIn
    /\ (calls[c].rebuilds > 0 /\ calls[c].pc = "navigate") =>
         calls[c].log = <<"init", "login">>

\* C6: an error that the catch block does not classify as a session or
\* navigation fault makes scrape() return the cached snapshot at once, with
\* no close and no retry: browser, page, isLoggedIn and latestData stay as
\* they are.
C6_OtherFailureKeepsSession ==
  [][\A c \in Calls :
       (calls[c].msg = <<>> /\ calls'[c].msg # <<>>
          /\ ~Classified(calls'[c].msg)) =>
         /\ UNCHANGED <<browser, page, isLoggedIn, latestData, live>>
         /\ calls'[c].pc = "done"
         /\ calls'[c].result = latestData
         /\ calls'[c].rebuilds = calls[c].rebuilds]_vars

\* a navigation timeout was swallowed while logged in, with a snapshot
\* cached
C6_Witness ==
  \E c \in ScrapeCalls :
    /\ calls[c].pc = "done"
    /\ calls[c].msg = MsgTimeout
    /\ isLoggedIn
    /\ browser # NULL
    /\ latestData # NULL

\* C7: a successful cycle stores the new snapshot and returns it; a failed
\* one returns the snapshot cached before the call and leaves latestData
\* as it was; either way the value returned is getLatestData() at the
\* return.
C7_ReturnsNewestOrCached ==
  \A c \in ScrapeCalls :
    /\ calls[c].pc = "done" =>
         /\ calls[c].result = latestData
         /\ IF Extracted(c)
            THEN calls[c].result \notin {NULL, calls[c].cache0}
            ELSE calls[c].result = calls[c].cache0
    /\ InFlight(c) => latestData = calls[c].cache0

\* a cycle replaced an older snapshot by a new one and returned it
C7_Witness ==
  \E c \in ScrapeCalls :
    /\ calls[c].pc = "done"
    /\ Extracted(c)
    /\ calls[c].cache0 # NULL
    /\ calls[c].result = latestData

\* C8: a scrape() cycle begun without a session runs initialization, then
\* login, then navigation, then extraction, each after the one before has
\* succeeded; a cycle whose login or navigation failed extracts nothing.
C8_PhasesInOrder ==
  \A c \in ScrapeCalls :
    /\ calls[c].fresh =>
         /\ calls[c].pc = "login" => calls[c].log = <<"init">>
         /\ calls[c].pc = "navigate" => calls[c].log = <<"init", "login">>
         /\ Extracting(c) => calls[c].log = <<"init", "login", "nav">>
         /\ Extracted(c) =>
              calls[c].log = <<"init", "login", "nav", "extract">>
    /\ calls[c].msg # <<>> => ~Extracted(c)
    /\ (Extracting(c) \/ Extracted(c)) =>
         /\ \E i \in 1..Len(calls[c].log) : calls[c].log[i] = "nav"
         /\ isLoggedIn

\* a cycle begun without a browser went through all four phases
C8_Witness ==
  \E c \in ScrapeCalls :
    /\ calls[c].pc = "done"
    /\ calls[c].fresh
    /\ calls[c].log = <<"init", "login", "nav", "extract">>

\* C9: at most one scrape cycle is in flight at any time.
C9_OneCycleInFlight ==
  Cardinality({c \in ScrapeCalls : InFlight(c)}) <= 1

\* C10: at most one browser launched and not closed exists, and it is the
\* one this.browser refers to.
C10_OneLiveBrowser ==
  /\ Cardinality(live) <= 1
  /\ live \subseteq {browser}

\* C11: a cycle that starts with browser and isLoggedIn set runs no
\* initialize() and no login() before it navigates; a stored extraction
\* never ran on a page without an authenticated session; and a call that
\* began with isLoggedIn set and the remote session expired logs in again:
\* it stores no extraction before a login() of its own succeeded, and it
\* does not return on the navigation failure the expired session causes.
C11_ReauthenticatesWhenExpired ==
  \A c \in ScrapeCalls :
    /\ calls[c].flag0 =>
         \A i \in 1..Len(calls[c].log) :
           calls[c].log[i] \notin {"init", "login"}
    /\ Extracted(c) => ~calls[c].blind
    /\ (calls[c].stale /\ Extracted(c)) => calls[c].relogged
    /\ (calls[c].stale /\ calls[c].msg \in NavFailures) =>
         calls[c].pc # "done"

\* C12: recovery. A scrape() call made once every browser operation
\* succeeds again, in whatever state the failed cycles before it left the
\* scraper (a partly completed initialize(), a failed login()), does not
\* throw and returns a fresh snapshot that it stored.
C12_RecoversOnceHealthy ==
  \A c \in ScrapeCalls :
    calls[c].calm =>
      /\ calls[c].pc # "threw"
      /\ calls[c].pc = "done" =>
           /\ Extracted(c)
           /\ calls[c].result = latestData
           /\ calls[c].result \notin {NULL, calls[c].cache0}

\* C13: a timeout of the data-ready wait does not abort the cycle, and
\* neither does a failure of the diagnostic screenshot that follows it:
\* no error reaches scrape()'s catch block, the extraction is attempted,
\* and the snapshot it yields is stored and returned.
C13_WaitTimeoutDoesNotAbort ==
  \A c \in ScrapeCalls :
    calls[c].wait \in {"timeout", "shot", "noshot"} =>
      /\ calls[c].msg = <<>>
      /\ calls[c].wait = "timeout" <=> calls[c].pc = "screenshot"
      /\ calls[c].pc \in {"screenshot", "evaluate", "done"}
      /\ (calls[c].pc = "done" /\ Extracted(c)) =>
           /\ calls[c].result = latestData
           /\ calls[c].result \notin {NULL, calls[c].cache0}

\* the wait timed out, the screenshot failed, and the call returned the
\* snapshot it extracted and stored
C13_Witness ==
  \E c \in ScrapeCalls :
    /\ calls[c].wait = "noshot"
    /\ calls[c].pc = "done"
    /\ Extracted(c)
    /\ calls[c].result = latestData

SnapshotKeys ==
  {"timestamp", "solar", "grid", "battery", "car", "consumption", "mfrr"}

\* obj has every key of a Snapshot, each device with all its fields, and
\* every value is set or null
Complete(obj) ==
  /\ DOMAIN obj = SnapshotKeys
  /\ obj.timestamp # NULL
  /\ \A k \in {"solar", "grid", "car", "consumption"} :
       /\ DOMAIN obj[k] = {"load", "status"}
       /\ \A f \in DOMAIN obj[k] : obj[k][f] \in {NULL, Val}
  /\ DOMAIN obj.battery = {"load", "soc", "status"}
  /\ \A f \in DOMAIN obj.battery : obj.battery[f] \in {NULL, Val}
  /\ obj.mfrr \in {NULL, Val}

\* C14: latestData is null or refers to one complete Snapshot object, with
\* all seven keys whatever the page held; what a reader got from
\* getLatestData() is null or such an object, as returned whole by an
\* earlier page.evaluate(), never the object under construction.
C14_SnapshotWholeOrNull ==
  /\ latestData \in 0..Len(heap)
  /\ seen \in 0..Len(heap)
  /\ \A i \in 1..Len(heap) :
       /\ Complete(heap[i])
       /\ heap[i].timestamp = i
  /\ epc.at = "idle" => latestData = Len(heap)

\* a reader got the previous snapshot while the next one, for a page
\* without an mFRR element, was under construction
C14_Witness ==
  /\ epc.at = "return"
  /\ doc["mfrr"] = "absent"
  /\ doc["battery"] = "full"
  /\ seen = 1
  /\ latestData = 1
  /\ result.timestamp = 2

CloseCalls == {c \in Calls : calls[c].op = "close"}

\* C15: close() called before any scrape(), or right after a close() that
\* returned, returns at once without closing anything and without
\* throwing; when close() has returned, browser and page are null,
\* isLoggedIn is false and latestData is what it was at the call, so the
\* second of two calls in a row changes nothing.
C15_CloseIdempotent ==
  \A c \in CloseCalls :
    /\ calls[c].after \in {"none", "close"} =>
         calls[c].pc = "done" /\ calls[c].b = NULL
    /\ calls[c].pc = "done" =>
         /\ browser = NULL
         /\ page = NULL
         /\ ~isLoggedIn
         /\ latestData = calls[c].cache0

\* the second of two close() calls in a row has returned, after a scrape()
\* that stored a snapshot
C15_Witness ==
  \E c \in CloseCalls :
    /\ calls[c].after = "close"
    /\ calls[c].pc = "done"
    /\ latestData # NULL

\* C16: navigateToPlant() returns normally only after its final check
\* found the page on the plant's URL and a Solar / Grid marker was seen;
\* when the final check finds the page elsewhere it throws the terminal
\* error with that URL; and it leaves isLoggedIn and latestData alone.
C16_ReturnsOnlyOnTarget ==
  /\ nav.out = "ok" =>
       nav.checked /\ IsOnPlantPage(nav.url) /\ nav.markers
  /\ (nav.checked /\ ~IsOnPlantPage(nav.url)) =>
       nav.out = "threw" /\ nav.msg = MsgNavFailed(nav.url)
  /\ isLoggedIn
  /\ latestData = nav.data0

\* C17: when both direct attempts were redirected away from the plant's
\* URL and the plant list the page is on offers the link to the plant,
\* the fallback clicks it: navigateToPlant() does not end on the terminal
\* error with the page still on the list.
C17_FallbackReachesTarget ==
  (nav.tried = 2 /\ nav.link /\ nav.pc = "done"
     /\ nav.msg = MsgNavFailed(UrlPlantList)) =>
    nav.via = "fallback"

\* C18: whatever fails inside login() (the page load, the wait for the
\* form, a missing password input, the submit, the verification), the
\* caller gets the one error 'Login failed' and isLoggedIn is false;
\* isLoggedIn is true only when login() has returned normally, after its
\* verification.
C18_LoginFailsUniformly ==
  /\ lgn.out = "threw" =>
       /\ lgn.msg = MsgLoginFailed
       /\ lgn.err # <<>>
       /\ ~isLoggedIn
  /\ isLoggedIn <=> lgn.out = "ok"
  /\ lgn.out = "ok" => lgn.verified /\ lgn.err = <<>>

\* login() failed at its verification, with an error of its own
C18_Witness ==
  /\ lgn.out = "threw"
  /\ lgn.err \in {MsgInvalidCredentials, MsgStayedOnLogin, MsgStillOnLogin}
  /\ lgn.msg = MsgLoginFailed

TickCalls == {c \in Calls : calls[c].origin = "tick"}

\* C19, its steps: the loop is stopped (outside a shutdown) only by a tick
\* that finds the inactivity timeout exceeded, and that tick starts no
\* scrape; a scrape is started by a tick only while the loop runs and the
\* timeout is not exceeded, one scrape per tick; a stopped loop is
\* started again only by an API request.
C19_TickStep ==
  /\ (scrapeTimer /\ ~scrapeTimer' /\ phase' = phase) =>
       idleTooLong /\ calls' = calls
  /\ (\E c \in Calls : c \notin TickCalls /\ calls'[c].origin = "tick") =>
       /\ scrapeTimer /\ scrapeTimer'
       /\ ~idleTooLong
       /\ \E c \in Calls :
            /\ calls[c].pc = "idle"
            /\ calls'[c].op = "scrape"
            /\ \A d \in Calls \ {c} : calls'[d] = calls[d]
  /\ (~scrapeTimer /\ scrapeTimer') => ~idleTooLong'

\* C19: every tick either stops the loop, when the inactivity timeout is
\* exceeded, and starts no scrape then or later until a request arrives,
\* or invokes scrape() once; and once the timeout is exceeded the loop
\* stops, unless a request arrives first.
C19_LoopStopsWhenIdle ==
  /\ [][C19_TickStep]_vars
  /\ (scrapeTimer /\ idleTooLong) ~> (~scrapeTimer \/ ~idleTooLong)

\* a tick started a scrape; then the timeout was exceeded and a later tick
\* stopped the loop, the scrape still running
C19_Witness ==
  /\ ~scrapeTimer
  /\ idleTooLong
  /\ \E c \in TickCalls : InFlight(c)

\* C20, the step of GET /api/energy: it starts no scrape() and touches
\* nothing of the scraper.
C20_EnergyStep ==
  (response'.seq # response.seq /\ response'.route = "energy") =>
    /\ calls' = calls
    /\ UNCHANGED <<scraperVars, live>>

\* C20, the responses: /api/energy answers 503 exactly when no snapshot
\* is stored, and else success: true with the stored snapshot;
\* /api/refresh answers success: true only with a snapshot, the stored
\* one; and no snapshot is stored only as long as no call has stored one.
C20_ResponseShape ==
  /\ response.route = "energy" =>
       /\ response.status = 503 <=> response.cache = NULL
       /\ response.status \in {200, 503}
       /\ response.success <=> response.status = 200
  /\ response.route = "refresh" =>
       /\ response.status \in {200, 500}
       /\ response.success <=> response.status = 200
  /\ response.success =>
       response.data # NULL /\ response.data = response.cache
  /\ latestData = NULL =>
       \A c \in Calls : ~Extracted(c) /\ calls[c].cache0 = NULL

\* C20: GET /api/energy never starts a scrape and answers 503 exactly when
\* no snapshot has been stored; every response with success: true, of
\* either route, carries a non-null snapshot.
C20_SuccessCarriesSnapshot ==
  /\ [][C20_EnergyStep]_vars
  /\ []C20_ResponseShape

\* /api/refresh answered 500 after its scrape(), a browser launched and
\* nothing stored yet
C20_Witness ==
  /\ response.route = "refresh"
  /\ response.status = 500
  /\ response.cache = NULL
  /\ browser # NULL

\* C21: on a card whose load line is 'Load: n W' the lookup yields load = n
\* with the sign kept: -123 for 'Load: -123 W', and for 'Load: 0 W' the
\* value 0, which is not null; on a card without a load line it yields
\* null, and null is yielded only where no integer load is rendered.
C21_LoadSignedOrAbsent ==
  txt.pc \in {"soc", "status", "done"} =>
    /\ txt.src.load.fmt = "plain" =>
         /\ txt.load.some
         /\ txt.load.v = txt.src.load.n
         /\ txt.load # Absent
    /\ txt.src.load.fmt = "none" => txt.load = Absent
    /\ txt.load = Absent =>
         txt.src.load.fmt \in {"none", "kilo", "fraction"}

\* a card that shows 'Load: 0 W' was read, and its load is the value 0
C21_Witness ==
  /\ txt.pc = "done"
  /\ txt.src.load.fmt = "plain"
  /\ txt.src.load.n = 0
  /\ txt.load = Present(0)

(* "Battery\nCharging\nLoad: 450 W\nSoC: 78%" *)
BatteryExample ==
  <<
    "B", "a", "t", "t", "e", "r", "y", "\n", "C", "h", "a", "r", "g", "i",
    "n", "g", "\n", "L", "o", "a", "d", ":", " ", "4", "5", "0", " ", "W",
    "\n", "S", "o", "C", ":", " ", "7", "8", "%" >>

HasCore(l) == l.core # <<>>

\* C23: the battery card 'Battery', 'Charging', 'Load: 450 W', 'SoC: 78%'
\* yields load = 450, status = 'Charging' and soc = 78; and for every card
\* the status is what its second non-empty line says, blanks around it
\* removed, or null when that line starts with 'Load:' or 'SoC:' or the
\* card has fewer than two non-empty lines.
C23_StatusIsSecondLine ==
  txt.pc = "done" =>
    /\ txt.text = BatteryExample =>
         /\ txt.load = Present(450)
         /\ txt.status = Present(<<"C", "h", "a", "r", "g", "i", "n", "g">>)
         /\ txt.soc = Present(78)
    /\ LET said == SelectSeq(txt.src.lines, HasCore)
       IN IF /\ Len(said) >= 2
             /\ ~StartsWith(said[2].core, KwLoad)
             /\ ~StartsWith(said[2].core, KwSoC)
          THEN txt.status = Present(said[2].core)
          ELSE txt.status = AbsentText

\* the battery card of the example was read
C23_Witness ==
  /\ txt.pc = "done"
  /\ txt.text = BatteryExample
  /\ txt.src.dev = "battery"

\* the reading the evaluated function has to yield for device k on its
\* own, whatever the other lookups found
Lookup(k) ==
  LET idx == FindElement(txt.els, Label(k))
  IN IF idx = 0 THEN NoReading(k) ELSE CardReading(k, txt.els[idx])

C27_ReadingFromOwnCard ==
  txt.pc = "done" =>
    \A k \in DeviceSet :
      txt.res[k] =
        IF txt.card[k] # <<>> /\ Includes(txt.card[k], KwLoad)
        THEN CardReading(k, txt.card[k])
        ELSE NoReading(k)

\* how often op is among the strategies started
Times(op) == Cardinality({i \in 1..Len(nav.steps) : nav.steps[i] = op})

\* C24: navigateToPlant() starts with a reload when the page is on the
\* plant's route and with the deep link otherwise; the deep link is
\* navigated to a second time only when the route check after the first
\* attempt found the page elsewhere; the click on the list is attempted
\* only as the third strategy, both direct attempts having left the page
\* elsewhere; so one call makes at most two direct navigations and at most
\* one click.
C24_StrategiesInOrder ==
  /\ Len(nav.steps) >= 1 =>
       nav.steps[1] = IF IsOnPlantPage(nav.url0) THEN "reload" ELSE "deep"
  /\ Len(nav.steps) >= 2 =>
       /\ nav.steps[2] = "deep"
       /\ ~IsOnPlantPage(nav.landed[1])
  /\ Len(nav.steps) >= 3 =>
       /\ nav.steps[3] = "click"
       /\ ~IsOnPlantPage(nav.landed[2])
  /\ Len(nav.steps) <= 3
  /\ Times("reload") + Times("deep") <= 2
  /\ Times("click") <= 1

\* C25: a login attempt that gets to its submit step takes exactly one
\* submit action: the click on the primary submit button when the form
\* has one, else the click on another submit button that is no tab when
\* it has one, else Enter in the password input; Enter is not sent when a
\* button was found.
C25_OneSubmitByTier ==
  /\ Len(lgn.submits) <= 1
  /\ lgn.out = "ok" => Len(lgn.submits) = 1
  /\ Len(lgn.submits) = 1 =>
       lgn.submits[1] =
         IF lgn.button = "primary" THEN "primary"
         ELSE IF lgn.button = "generic" THEN "generic"
              ELSE "enter"

\* C26: isLoggedIn is true only when login() has verified that the
\* password input is gone; after a timeout of the wait for the URL change
\* the login goes on to that verification, and when it fails it is not
\* with the timeout; and a login that ends with the password input still
\* on the page has failed.
C26_VerifiedByPasswordGone ==
  /\ isLoggedIn => lgn.out = "ok" /\ lgn.verified /\ ~lgn.pwdAfter
  /\ lgn.urlWait = "timeout" =>
       /\ lgn.pc \in {"verify", "done"}
       /\ lgn.out = "threw" => lgn.err # MsgTimeout
       /\ lgn.out = "ok" => ~lgn.pwdAfter
  /\ (lgn.pc = "done" /\ lgn.pwdAfter) => lgn.out = "threw"

\* the number of extractions the cycle in slot c has completed
Extractions(c) ==
  Cardinality({i \in 1..Len(calls[c].log) : calls[c].log[i] = "extract"})

\* C28: latestData changes only in the step in which an extraction
\* completes successfully, to the snapshot that extraction returns, and a
\* cycle completes at most one extraction; once latestData holds a
\* snapshot no step resets it to null: not a failing cycle, not the
\* session rebuild, not close().
C28_CacheOnlyReplaced ==
  [][/\ latestData' # latestData =>
          /\ latestData' # NULL
          /\ \E c \in ScrapeCalls :
               /\ calls[c].pc = "evaluate"
               /\ calls'[c].pc = "done"
               /\ calls'[c].result = latestData'
               /\ Extractions(c) = 0
               /\ Extractions(c)' = 1
     /\ latestData # NULL => latestData' # NULL
     /\ \A c \in ScrapeCalls : Extractions(c)' <= 1]_vars

\* a cycle over a cached snapshot rebuilt the session, lost its retry as
\* well and returned, the cache being the snapshot of before
C28_Witness ==
  \E c \in ScrapeCalls :
    /\ calls[c].pc = "done"
    /\ calls[c].rebuilds > 0
    /\ ~Extracted(c)
    /\ calls[c].cache0 # NULL
    /\ latestData = calls[c].cache0

\* C29: between operations of the scraper, isLoggedIn implies a browser
\* and a page, and there is a browser exactly when there is a page; so
\* after a failed initialize(), a failed login() and close().
C29_SessionFieldsConsistent ==
  (\A c \in Calls : ~InFlight(c)) =>
    /\ isLoggedIn => browser # NULL /\ page # NULL
    /\ browser # NULL <=> page # NULL

\* C30: scrapeTimer is set exactly when one interval is scheduled, and
\* never is there a second one; a request that finds a timer running
\* schedules and clears nothing, and stop() or a callback that finds no
\* timer held clears nothing.
C30_OneTimer ==
  /\ [](timers = IF scrapeTimer THEN 1 ELSE 0)
  /\ [][(scrapeTimer /\ (GetEnergy \/ PostRefresh(1)))
          => UNCHANGED <<scrapeTimer, timers>>]_vars
  /\ [][(~scrapeTimer /\ (Signal(1) \/ Tick(1)))
          => UNCHANGED <<scrapeTimer, timers>>]_vars

\* stop() cleared the loop and a request that came while the scraper was
\* being closed started it again: one timer
C30_Witness ==
  /\ phase = "stopping"
  /\ calls[1].origin = "stop"
  /\ scrapeTimer
  /\ timers = 1

\* a request is handled in this step: GET /api/energy answers in it, POST
\* /api/refresh starts its scrape() in it
EnergyHandled ==
  response'.seq # response.seq /\ response'.route = "energy"
RefreshHandled ==
  \E c \in Calls : calls[c].pc = "idle" /\ calls'[c].origin = "refresh"

\* the scrapes started by this step
StartedBy(origin) ==
  {c \in Calls : calls[c].pc = "idle" /\ calls'[c].origin = origin}

\* C31, its steps: a step that handles a request to /api/energy or
\* /api/refresh ends with the inactivity timeout not exceeded and one
\* timer held, whatever it began with, and starts no scrape for the
\* loop: the loop's scrapes are started by later steps, each by a
\* callback of a timer held before the step; /api/energy is answered
\* from the cache as it stands, no scrape started and nothing stored.
C31_RequestStep ==
  /\ (EnergyHandled \/ RefreshHandled) =>
       /\ ~idleTooLong'
       /\ scrapeTimer'
       /\ timers' = 1
       /\ StartedBy("tick") = {}
  /\ EnergyHandled =>
       /\ calls' = calls
       /\ latestData' = latestData
       /\ response'.data = latestData
       /\ response'.cache = latestData
       /\ response'.success <=> latestData # NULL
  /\ RefreshHandled =>
       /\ Cardinality(StartedBy("refresh")) = 1
       /\ response' = response
  /\ StartedBy("tick") # {} =>
       scrapeTimer /\ timers = 1 /\ ~EnergyHandled /\ ~RefreshHandled

\* C31: every handled request to /api/energy or /api/refresh updates
\* lastActivity and leaves the loop running, so a loop stopped for
\* inactivity runs again after the next request; the request that starts
\* the loop starts no scrape for it, the loop's first scrape comes with
\* a later callback of its timer, and /api/energy answers from the cache.
C31_RequestKeepsLoopRunning == [][C31_RequestStep]_vars

\* the loop had been stopped for inactivity; a request to /api/energy
\* started it again and was answered with the cached snapshot, no scrape
\* running
C31_Witness ==
  /\ response.restart
  /\ response.route = "energy"
  /\ response.status = 200
  /\ response.data = latestData
  /\ scrapeTimer
  /\ ~idleTooLong
  /\ NoneInFlight

\* Server.stop() has completed: the process has left the signal handler,
\* and the close() of stop(), if there was one, returned
StopCompleted ==
  /\ phase = "stopped"
  /\ \A c \in Calls : calls[c].origin = "stop" => calls[c].pc = "done"

\* C32: once Server.stop() has completed no timer is held or scheduled
\* and no browser is live, and none is launched from then on, also when a
\* scrape cycle was in flight as stop() closed the browser.
C32_ShutdownLeavesNothing ==
  /\ [](StopCompleted => ~scrapeTimer /\ timers = 0 /\ live = {})
  /\ [][StopCompleted => live' \subseteq live]_vars

\* everything but the record of requests and responses is left as it was
NothingTouched ==
  UNCHANGED <<variant, scraperVars, live, authed, calls, phase,
              scrapeTimer, timers, idleTooLong, audit, faulty, extVars,
              loginFailed>>

\* C33, its steps: a request to /api/energy or /api/refresh whose key (the
\* authorization header when it is not empty, else the 'key' query
\* parameter) is not the string 'mfrr' is answered 401 and leaves
\* lastActivity, the timer, the invocations of the scraper and all the
\* rest as they are; a request with that key is passed on, and its
\* handler updates lastActivity and ensures the loop; and only a step that
\* takes a request with the valid key resets the inactivity, schedules a
\* timer or starts a refresh scrape.
C33_KeyStep ==
  /\ request' # request =>
       LET valid ==
             (IF request'.auth \in {Missing, Str("")}
              THEN request'.key ELSE request'.auth) = Str("mfrr")
       IN /\ request'.route \in ApiRoutes
          /\ ~valid => request'.answer = 401 /\ NothingTouched
          /\ valid =>
               /\ request'.answer = 0
               /\ ~idleTooLong'
               /\ scrapeTimer'
               /\ request'.route = "refresh" =>
                    \E c \in Calls :
                      calls[c].pc = "idle" /\ calls'[c].origin = "refresh"
  /\ ((idleTooLong /\ ~idleTooLong')
        \/ timers' > timers
        \/ \E c \in Calls :
             calls[c].pc = "idle" /\ calls'[c].origin = "refresh") =>
       request' # request /\ request'.answer = 0

\* C33: in the key-protected server every /api request without the valid
\* key is answered 401 and changes no state, and only requests with the
\* valid key reach the handlers.
C33_InvalidKeyChangesNothing == [][C33_KeyStep]_vars

\* a request with a wrong authorization header and the valid key in the
\* query was answered 401, the loop stopped for inactivity and still
\* stopped, a snapshot in the cache
C33_Witness ==
  /\ request.answer = 401
  /\ request.auth = Str("MFRR")
  /\ request.key = Str("mfrr")
  /\ ~scrapeTimer
  /\ timers = 0
  /\ idleTooLong
  /\ latestData # NULL
  /\ NoneInFlight

====
